---- MODULE Spec2Model ----
(***************************************************************************)
(* The concurrent ordered index (package skipList) of ml575/database-      *)
(* project: a lazy skip list with per-node locks, a marked flag, a         *)
(* fullyLinked flag and a last-modified time per node.                     *)
(*                                                                         *)
(* Processes are goroutines calling Upsert, Remove, Find and Query. Every  *)
(* step of a process is one access to shared memory that other goroutines  *)
(* can observe or disturb: one atomic Load of a next pointer during find,  *)
(* one racy read of marked / fullyLinked, one Lock, one Store. Accesses to *)
(* state that the lock held at that point protects, and the unlocks that   *)
(* end an operation, are folded into the neighbouring step.                *)
(***************************************************************************)
EXTENDS Integers, Sequences, FiniteSets, TLC

(* ------------------------------ bounds --------------------------------- *)
\* goroutines
NumProcs == 3
\* subscribers of the collection
NumSubs == 2
\* user keys are 1..NumKeys
NumKeys == 2
\* calls one goroutine makes one after the other
MaxOps == 2
\* names one POST draws before the model leaves it
MaxTries == 2
\* tokens generateRandomToken chooses from
NumTokens == 2
\* the deadline of a context that has one, in clock ticks after the start
DeadlineIn == 1
\* the top levels randomLevel is allowed to draw in the model: 0..MaxDraw
MaxDraw == 1

(* ------------------------- program constants --------------------------- *)
\* len(head.next): New builds a head with five levels
Height == 5
\* pointerFunc: the amount added in place, and the value of a new entry
PtrAdd == 2
\* funcVar: the amount added to the returned value, and the value of a new entry
ValAdd == 3

Procs == 1..NumProcs
Subs == 1..NumSubs
Keys == 1..NumKeys
\* New(name, minVal, maxVal): "" and "\U0010FFFF" in every caller
MinVal == 0
MaxVal == NumKeys + 1
AllKeys == MinVal..MaxVal
Levels == 0..(Height - 1)

\* node ids: head, tail, one node per call of each goroutine, then the nodes
\* of the entries present when the goroutines start
HeadId == 1
TailId == 2
NumNodes == 2 + NumProcs * MaxOps + NumKeys
NodeIds == 1..NumNodes
Nil == 0

VARIABLES
    nodes,      \* node id -> node (the heap of node structs)
    clock,      \* the value time.Now() returned last
    cancelled,  \* ctx.Err() != nil because cancel() was called
    procs,      \* goroutine -> its locals and its position in the code
    prog,       \* goroutine -> the calls it still has to make
    hist,       \* goroutine -> the calls it completed, with their results
    nCheck,     \* key -> number of check invocations with exists=false / true
    obs,        \* goroutine -> what held of its key at some moment of its call
    docs,       \* node id -> the Document (or Collection) the node's value points to
    subs,       \* subscriber -> its range, where its goroutine is, the frames it got
    tokens,     \* Auth.tokens: token -> the name and expiry stored for it
    dbIndex     \* the names dbIndex holds, of the database the requests' paths name

vars == <<nodes, clock, cancelled, procs, prog, hist, nCheck, obs, docs, subs, tokens,
          dbIndex>>

(* ------------------------------- nodes --------------------------------- *)
\* type node: key, value, mtx (0 = unlocked, else the holder), topLevel, marked,
\* fullyLinked, time, next (level l is next[l + 1])
FreeNode ==
    [key |-> -1, value |-> 0, mtx |-> 0, topLevel |-> 0, marked |-> FALSE,
     fullyLinked |-> FALSE, time |-> 0, next |-> <<>>]

\* New: the tail, with maxVal and no next pointers
TailNode ==
    [key |-> MaxVal, value |-> 0, mtx |-> 0, topLevel |-> 0, marked |-> FALSE,
     fullyLinked |-> TRUE, time |-> 0, next |-> <<>>]

\* New: the head, with minVal, pointing to the tail at every level
HeadNode ==
    [key |-> MinVal, value |-> 0, mtx |-> 0, topLevel |-> 0, marked |-> FALSE,
     fullyLinked |-> TRUE, time |-> 0, next |-> [l \in 1..Height |-> TailId]]

\* node.equals: same key and same time
NodeEquals(ns, a, b) ==
    ns[a].key = ns[b].key /\ ns[a].time = ns[b].time

\* randomLevel(len(s.head.next) - 2): a draw in 0..Height-2, cut to the model's bound
IF_Min(a, b) == IF a < b THEN a ELSE b
Max(S) == CHOOSE x \in S : \A y \in S : y <= x
RandomLevels == 0..IF_Min(Height - 2, MaxDraw)

(* --------------------------- initial index ----------------------------- *)
\* The index after New and one Upsert per key of ks, made one after the other in
\* ascending key order by one goroutine: key k gets top level lv[k], value val and
\* time k. The node of key k is the last node id minus (NumKeys - k).
InitNodeId(k) == 2 + NumProcs * MaxOps + k

NextPresent(ks, lv, k, l) ==
    LET later == {j \in ks : j > k /\ lv[j] >= l}
    IN  IF later = {} THEN TailId
        ELSE InitNodeId(CHOOSE j \in later : \A j2 \in later : j <= j2)

InitIndex(ks, lv, val) ==
    [n \in NodeIds |->
        IF n = HeadId THEN [HeadNode EXCEPT !.next =
                               [l \in 1..Height |-> NextPresent(ks, lv, MinVal, l - 1)]]
        ELSE IF n = TailId THEN TailNode
        ELSE IF \E k \in ks : n = InitNodeId(k)
             THEN LET k == CHOOSE k \in ks : n = InitNodeId(k)
                  IN  [key |-> k, value |-> val, mtx |-> 0, topLevel |-> lv[k],
                       marked |-> FALSE, fullyLinked |-> TRUE, time |-> k,
                       next |-> [l \in 1..(lv[k] + 1) |-> NextPresent(ks, lv, k, l - 1)]]
        ELSE FreeNode]

(* ------------------------- JSON values and patches ---------------------- *)
\* a JSONValue: a number, an array (items in order) or an object (a set of members,
\* as Go's map has no order); every value carries all fields so that values compare
Num(n) == [t |-> "num", n |-> n, items |-> <<>>, members |-> {}]
Arr(s) == [t |-> "arr", n |-> 0, items |-> s, members |-> {}]
Obj(m) == [t |-> "obj", n |-> 0, items |-> <<>>, members |-> m]
Null == [t |-> "null", n |-> 0, items |-> <<>>, members |-> {}]
Member(k, v) == [k |-> k, v |-> v]

\* a string holding a path is kept as its pieces between the "/": "" is <<"">>,
\* "/a" is <<"", "a">>, "a/" is <<"a", "">>; strings.Split gives the pieces back
EmptyPath == <<"">>
Split(path) == path

\* strings.Join of the pieces: no piece and one empty piece both give ""
Join(sp) == IF sp = <<>> THEN EmptyPath ELSE sp

\* strings.ReplaceAll of "~1" by "/" and then of "~0" by "~" in a path piece
Unescape(seg) ==
    CASE seg = "a~1b" -> "a/b"
      [] seg = "~01" -> "~1"
      [] OTHER -> seg

\* strconv.Atoi of a path piece
Atoi(seg) ==
    CASE seg = "0" -> [ok |-> TRUE, n |-> 0]
      [] seg = "1" -> [ok |-> TRUE, n |-> 1]
      [] seg = "+1" -> [ok |-> TRUE, n |-> 1]
      [] seg = "-1" -> [ok |-> TRUE, n |-> -1]
      [] OTHER -> [ok |-> FALSE, n |-> 0]

\* what a visitor gives back: a value, an error, or a run-time panic
Ok(j) == [res |-> "ok", val |-> j]
Err == [res |-> "err", val |-> Null]
Panic == [res |-> "panic", val |-> Null]

NewDocVisitor(op, path, value) == [op |-> op, path |-> path, value |-> value, first |-> TRUE]

handlePathStart(v) ==
    LET splitPaths == IF v.first \/ v.path # EmptyPath THEN Split(v.path) ELSE <<>>
    IN  IF v.first /\ splitPaths[1] # ""
        THEN [v |-> v, splitPaths |-> splitPaths, err |-> TRUE]
        ELSE IF v.first
             THEN [v |-> [v EXCEPT !.first = FALSE], splitPaths |-> Tail(splitPaths),
                   err |-> FALSE]
             ELSE [v |-> v, splitPaths |-> splitPaths, err |-> FALSE]

doArrayAdd(v, s) ==
    IF \E idx \in 1..Len(s) : s[idx] = v.value
    THEN Ok(Arr(s))
    ELSE Ok(Arr(Append(s, v.value)))

doArrayRemove(v, s) ==
    IF \E idx \in 1..Len(s) : s[idx] = v.value
    THEN LET removeIdx == CHOOSE idx \in 1..Len(s) :
                              /\ s[idx] = v.value
                              /\ \A j \in 1..(idx - 1) : s[j] # v.value
         IN  Ok(Arr(SubSeq(s, 1, removeIdx - 1) \o SubSeq(s, removeIdx + 1, Len(s))))
    ELSE Ok(Arr(s))

doObjectAdd(v, m, splitPaths) ==
    LET key == Unescape(splitPaths[1])
    IN  IF \E e \in m : e.k = key
        THEN Ok(Obj(m))
        ELSE Ok(Obj(m \cup {Member(key, v.value)}))

RECURSIVE Accept(_, _)
RECURSIVE mapAcceptNextPath(_, _, _)
RECURSIVE sliceAcceptNextPath(_, _, _)
RECURSIVE DocVisitorMap(_, _)
RECURSIVE DocVisitorSlice(_, _)

mapAcceptNextPath(v, m, splitPaths) ==
    LET next_path == Unescape(splitPaths[1])
    IN  IF \E e \in m : e.k = next_path
        THEN LET e == CHOOSE e \in m : e.k = next_path
                 acceptRes == Accept(e.v, [v EXCEPT !.path = Join(Tail(splitPaths))])
             IN  IF acceptRes.res # "ok"
                 THEN acceptRes
                 ELSE Ok(Obj((m \ {e}) \cup {Member(e.k, acceptRes.val)}))
        ELSE Err

\* s[idx] with idx below 0 is an index out of range: the goroutine panics
sliceAcceptNextPath(v, s, splitPaths) ==
    LET idx == Atoi(splitPaths[1])
    IN  IF ~idx.ok THEN Err
        ELSE IF idx.n >= Len(s) THEN Err
        ELSE IF idx.n < 0 THEN Panic
        ELSE LET acceptRes == Accept(s[idx.n + 1],
                                     [v EXCEPT !.path = Join(Tail(splitPaths))])
             IN  IF acceptRes.res # "ok"
                 THEN acceptRes
                 ELSE Ok(Arr([s EXCEPT ![idx.n + 1] = acceptRes.val]))

DocVisitorMap(v0, m) ==
    LET h == handlePathStart(v0)
        v == h.v
        splitPaths == h.splitPaths
    IN  IF h.err THEN Err
        ELSE IF Len(splitPaths) = 0 THEN Err
        ELSE IF v.op = "ArrayAdd" \/ v.op = "ArrayRemove"
             THEN mapAcceptNextPath(v, m, splitPaths)
        ELSE IF v.op = "ObjectAdd"
             THEN IF Len(splitPaths) = 1
                  THEN doObjectAdd(v, m, splitPaths)
                  ELSE mapAcceptNextPath(v, m, splitPaths)
        ELSE Err

DocVisitorSlice(v0, s) ==
    LET h == handlePathStart(v0)
        v == h.v
        splitPaths == h.splitPaths
    IN  IF h.err THEN Err
        ELSE IF v.op = "ArrayAdd"
             THEN IF Len(splitPaths) = 0
                  THEN doArrayAdd(v, s)
                  ELSE sliceAcceptNextPath(v, s, splitPaths)
        ELSE IF v.op = "ArrayRemove"
             THEN IF Len(splitPaths) = 0
                  THEN doArrayRemove(v, s)
                  ELSE sliceAcceptNextPath(v, s, splitPaths)
        ELSE IF v.op = "ObjectAdd"
             THEN IF Len(splitPaths) = 0
                  THEN Err
                  ELSE sliceAcceptNextPath(v, s, splitPaths)
        ELSE Err

\* jsondata.Accept with a DocVisitor: a number (Float64) is an error
Accept(j, v) ==
    CASE j.t = "obj" -> DocVisitorMap(v, j.members)
      [] j.t = "arr" -> DocVisitorSlice(v, j.items)
      [] OTHER -> Err

\* one element of the request's list of operations: the properties it has, which of
\* "op" and "path" are strings, and their values
PatchItem(present, strings, op, path, value) ==
    [present |-> present, strings |-> strings, op |-> op, path |-> path, value |-> value]
PatchOp(op, path, value) == PatchItem({"op", "path", "value"}, {"op", "path"}, op, path, value)

\* PatchVisitor.Map: whether the element is a patch operation
PatchVisitorMap(item) ==
    /\ "op" \in item.present
    /\ "path" \in item.present
    /\ "value" \in item.present
    /\ "op" \in item.strings
    /\ "path" \in item.strings

StatusOK == 200
StatusCreated == 201
StatusBadRequest == 400
StatusNotFound == 404
StatusPreconditionFailed == 412
StatusNoContent == 204
StatusUnauthorized == 401

\* time.Hour in the model's clock: later than every time the goroutines reach
Hour == 100

\* the loop of the PATCH check over the operations: the document's JSON after the
\* operations applied so far, patchFailed, retStatus, and whether it panicked
RECURSIVE PatchLoop(_, _, _)
PatchLoop(docJson, ops, retStatus) ==
    IF ops = <<>>
    THEN [docJson |-> docJson, patchFailed |-> FALSE, retStatus |-> retStatus,
          panic |-> FALSE]
    ELSE IF ~PatchVisitorMap(Head(ops))
         THEN [docJson |-> docJson, patchFailed |-> TRUE, retStatus |-> StatusBadRequest,
               panic |-> FALSE]
         ELSE LET o == Head(ops)
                  r == Accept(docJson, NewDocVisitor(o.op, o.path, o.value))
              IN  CASE r.res = "panic" ->
                         [docJson |-> docJson, patchFailed |-> FALSE,
                          retStatus |-> retStatus, panic |-> TRUE]
                    [] r.res = "err" ->
                         [docJson |-> docJson, patchFailed |-> TRUE,
                          retStatus |-> retStatus, panic |-> FALSE]
                    [] OTHER -> PatchLoop(r.val, Tail(ops), retStatus)

\* the schema of the database: a document is a JSON object
Validate(j) == j.t = "obj"

(* ------------------------------ documents ------------------------------ *)
NoDoc ==
    [name |-> 0, data |-> Null, createdAt |-> 0, createdBy |-> 0,
     lastModifiedAt |-> 0, lastModifiedBy |-> 0]

NewDocument(name, data, creator, time) ==
    [name |-> name, data |-> data, createdAt |-> time, createdBy |-> creator,
     lastModifiedAt |-> time, lastModifiedBy |-> creator]

\* a ModifyMetadata that stamps the creation fields too
ModifyMetadataAll(d, modifyer, time) ==
    [d EXCEPT !.lastModifiedBy = modifyer, !.lastModifiedAt = time,
              !.createdBy = modifyer, !.createdAt = time]

ModifyMetadata(d, modifyer, time) ==
    [d EXCEPT !.lastModifiedBy = modifyer, !.lastModifiedAt = time]

ReplaceData(d, data) == [d EXCEPT !.data = data]

\* a collection (a database): its name; it holds no data and no metadata
NewCollection(name) == [NoDoc EXCEPT !.name = name]

\* chanMessage: the document's name and the frame to write. Of the frame the model
\* keeps the event, the document in the data of an update and the id; by (the call
\* that sent it) and at (the time its mutation took effect) are for the properties.
NoMsg ==
    [docName |-> 0, ev |-> "none", doc |-> NoDoc, id |-> 0, by |-> <<0, 0>>, at |-> 0]

\* notificationHelper: "event: update", the document as DocumentJsonMake gives it,
\* and time.Now() as the id
UpdateMsg(docName, doc, id, by) ==
    [docName |-> docName, ev |-> "update", doc |-> doc, id |-> id, by |-> by,
     at |-> doc.lastModifiedAt]

\* delete: "event: delete", the path and time.Now() as the id
DeleteMsg(docName, id, by, at) ==
    [docName |-> docName, ev |-> "delete", doc |-> NoDoc, id |-> id, by |-> by, at |-> at]

\* ": keep alive"
KeepAliveMsg == [NoMsg EXCEPT !.ev = "keepalive"]

(* ------------------------------ goroutines ----------------------------- *)
\* nameAndExp: what Auth.tokens stores for a token
NoToken == [name |-> -1, expiry |-> 0]

NilLevels == [l \in 1..Height |-> Nil]

NoOp == [kind |-> "none", key |-> 0, chk |-> "none", top |-> 0, hi |-> 0, ctx |-> "nil"]

Idle ==
    [pc |-> "idle", op |-> NoOp, pred |-> Nil, level |-> 0, foundLevel |-> -1,
     preds |-> NilLevels, succs |-> NilLevels, locked |-> {}, highestLocked |-> -1,
     victim |-> Nil, isMarked |-> FALSE, topLevel |-> -1, node |-> Nil, tmp |-> 0,
     next |-> Nil, firstIter |-> <<>>, keys |-> <<>>, values |-> <<>>, i |-> 0,
     allOk |-> TRUE, retried |-> FALSE, afterDone |-> FALSE, mid |-> <<>>,
     before |-> <<>>,
     req |-> NoOp, retStatus |-> 0, patchFailed |-> FALSE, cur |-> NoDoc,
     chkErr |-> FALSE, applied |-> FALSE, notified |-> FALSE, pending |-> {},
     target |-> 0, msg |-> NoMsg, act |-> "none", tok |-> NoToken, tokOk |-> FALSE]

UpsertOp(k, c, t) == [kind |-> "upsert", key |-> k, chk |-> c, top |-> t, hi |-> 0, ctx |-> "nil"]
RemoveOp(k) == [kind |-> "remove", key |-> k, chk |-> "none", top |-> 0, hi |-> 0, ctx |-> "nil"]
FindOp(k) == [kind |-> "find", key |-> k, chk |-> "none", top |-> 0, hi |-> 0, ctx |-> "nil"]
QueryOp(lo, h, c) == [kind |-> "query", key |-> lo, chk |-> "none", top |-> 0, hi |-> h, ctx |-> c]

\* the calls of Auth: IsTokenValid(token), DeleteToken(token), AddToken(username)
IsTokenValidOp(t) == [kind |-> "valid", key |-> t, chk |-> "none", top |-> 0, hi |-> 0, ctx |-> "nil"]
DeleteTokenOp(t) == [kind |-> "deltoken", key |-> t, chk |-> "none", top |-> 0, hi |-> 0, ctx |-> "nil"]
AddTokenOp(u) == [kind |-> "addtoken", key |-> u, chk |-> "none", top |-> 0, hi |-> 0, ctx |-> "nil"]
AuthKinds == {"valid", "deltoken", "addtoken"}

\* lastRealItem's look for the last name of the path
LookupOp(k) == [kind |-> "lookup", key |-> k, chk |-> "none", top |-> 0, hi |-> 0, ctx |-> "nil"]

\* the Authorization header, cut after len("Bearer "): its first seven bytes (or
\* fewer) and the rest. Tokens are numbers; the token of user u is u.
Header(prefix, rest) == [prefix |-> prefix, rest |-> rest]
NoHeader == Header("", -1)
Bearer(token) == Header("Bearer ", token)

\* a request: its method, the Authorization header, the path after /v1/ and what
\* the handler reads of the query and the body. Of the path the model keeps, for
\* every name before the last, whether it is there (pre: database, document,
\* collection, ... in turn), and the last name (key); the last name is looked up in
\* the index of the model. A path that ends with "/" has "" as its last name: it is
\* the key (MinVal) if the index of the model is the one "" is looked up in, else
\* it comes after the key (tail). top is the level Upsert's randomLevel will draw;
\* kind names the request in the properties.
Request(kind, method, pre, k, auth) ==
    [kind |-> kind, key |-> k, chk |-> "none", top |-> 0, hi |-> 0, ctx |-> "nil",
     mode |-> "", user |-> -1, body |-> Null, isList |-> FALSE, ops |-> <<>>,
     method |-> method, pre |-> pre, tail |-> FALSE, auth |-> auth]

\* PUT and PATCH of the document k of a database, PUT of the database k
PutReq(k, mode, user, body, t) ==
    [Request("put", "PUT", <<TRUE>>, k, Bearer(user))
        EXCEPT !.top = t, !.mode = mode, !.body = body]
PatchReq(k, user, isList, ops, t) ==
    [Request("patch", "PATCH", <<TRUE>>, k, Bearer(user))
        EXCEPT !.top = t, !.isList = isList, !.ops = ops]
PutDbReq(k, user, t) ==
    [Request("putdb", "PUT", <<>>, k, Bearer(user)) EXCEPT !.top = t]

\* GET and DELETE of the document k of a database
GetReq(k, user) == Request("get", "GET", <<TRUE>>, k, Bearer(user))
DeleteReq(k, user) == Request("delete", "DELETE", <<TRUE>>, k, Bearer(user))

\* GET of the documents of a database with names in [lo, hi]; its context can be
\* cancelled and has no deadline
GetColReq(lo, hi, user) ==
    [Request("getcol", "GET", <<TRUE>>, MinVal, Bearer(user))
        EXCEPT !.top = lo, !.hi = hi, !.ctx = "cancel"]

\* DELETE of the database k, and of the collection k of a document
DeleteDbReq(k, user) == Request("deldb", "DELETE", <<>>, k, Bearer(user))
DeleteColReq(k, user) ==
    [Request("delcol", "DELETE", <<TRUE, TRUE>>, k, Bearer(user)) EXCEPT !.tail = TRUE]

\* DELETE of the database the other requests' paths name ("/db")
Database == "db"
DropDbReq(user) == Request("dropdb", "DELETE", <<>>, MinVal, Bearer(user))

\* POST to the documents of a database ("/db/"), with a body
PostReq(user, body, t) ==
    [Request("post", "POST", <<TRUE>>, MinVal, Bearer(user))
        EXCEPT !.top = t, !.body = body]

\* the checks the handlers pass to Upsert: the funcVar of put for a document, of
\* patch, of put for a database, and of post
HandlerCheck(chk) == chk \in {"put", "patch", "create", "post"}

\* the status of the response when the handler has its answer from the index
FinalStatus(l, res) ==
    IF l.req.kind = "none" THEN res.status
    ELSE IF res.panicked THEN 0
    ELSE IF res.status # 0 THEN res.status
    ELSE IF l.act \in {"deldoc", "delcol"} THEN StatusBadRequest
    ELSE IF res.err
         THEN IF l.req.kind = "patch" /\ ~res.exists THEN StatusNotFound
              ELSE IF l.act = "post" THEN StatusNotFound
              ELSE StatusBadRequest
    ELSE l.retStatus

\* the node a goroutine's current call allocates if it inserts
NewNodeId(p) == 2 + (p - 1) * MaxOps + Len(hist[p]) + 1

\* time.Now(): later than every time handed out before
Now == clock + 1

\* the result of a completed call: what it returned (val, ok, err), whether its
\* check saw exists=true, and for the properties: whether the index content was the
\* same after the call as before (kept; noted for Upserts whose check fails), and
\* whether the key was in / not in the index at some moment of the call and whether
\* the call changed a node (Find, Remove), the contents the index went through (Query);
\* for a request: the request, the status of its response (0: none was written),
\* patchFailed, whether the handler panicked, whether it called Upsert, whether its
\* check called notificationHelper, and the
\* document its check was given as it was when the check began and when it returned
Result(op, val, ok, err, exists) ==
    [op |-> op, val |-> val, ok |-> ok, err |-> err, exists |-> exists,
     kept |-> TRUE, sawLive |-> FALSE, sawDead |-> FALSE, wrote |-> FALSE,
     snaps |-> {}, status |-> 0, patchFailed |-> FALSE,
     panicked |-> FALSE, viaUpsert |-> FALSE, notified |-> FALSE,
     docWas |-> NoDoc, docIs |-> NoDoc]

(* --------------------------- observations ------------------------------ *)
\* key k is in the index: a node with that key is fully linked and not marked
Live(ns, k) ==
    \E n \in NodeIds \ {HeadId, TailId} :
        ns[n].key = k /\ ns[n].fullyLinked /\ ~ns[n].marked

\* the content of the index: the value under every key that is in it, else -1
Contents(ns) ==
    [k \in AllKeys |->
        IF Live(ns, k)
        THEN ns[CHOOSE n \in NodeIds \ {HeadId, TailId} :
                    ns[n].key = k /\ ns[n].fullyLinked /\ ~ns[n].marked].value
        ELSE -1]

\* the entries a range scan can meet: the value under every key that has an
\* unmarked node linked at level 0, else -1
RECURSIVE LinkedFrom(_, _, _)
LinkedFrom(ns, n, fuel) ==
    IF n = TailId \/ fuel = 0 THEN {} ELSE {n} \cup LinkedFrom(ns, ns[n].next[1], fuel - 1)

Linked(ns) ==
    LET on == {n \in LinkedFrom(ns, ns[HeadId].next[1], NumNodes) : ~ns[n].marked}
    IN  [k \in AllKeys |->
            IF \E n \in on : ns[n].key = k
            THEN ns[CHOOSE n \in on : ns[n].key = k].value ELSE -1]

\* what a goroutine's call has had the chance to see since it began: for a Find or
\* a Remove whether its key was in / not in the index at some moment and whether a
\* step of the call changed a node, for a Query every content the index had at some
\* moment, for a call of Auth whether the token was stored and not expired
TokenGood(ts, now, t) == t \in DOMAIN ts /\ ~(now > ts[t].expiry)

Observe(ns, ps, o) ==
    [p \in Procs |->
        CASE ps[p].op.kind \in {"find", "remove"} ->
                [live |-> o[p].live \/ Live(ns, ps[p].op.key),
                 dead |-> o[p].dead \/ ~Live(ns, ps[p].op.key),
                 wrote |-> o[p].wrote \/ (ps[p] # procs[p] /\ ns # nodes),
                 snaps |-> {}]
          [] ps[p].op.kind = "query" ->
                [live |-> FALSE, dead |-> FALSE, wrote |-> FALSE,
                 snaps |-> o[p].snaps \cup {Linked(ns)}]
          [] ps[p].op.kind \in {"valid", "deltoken"} ->
                [live |-> o[p].live \/ TokenGood(tokens', clock', ps[p].op.key),
                 dead |-> o[p].dead \/ ~TokenGood(tokens', clock', ps[p].op.key),
                 wrote |-> FALSE, snaps |-> {}]
          [] OTHER -> [live |-> FALSE, dead |-> FALSE, wrote |-> FALSE, snaps |-> {}]]

NoObs == [p \in Procs |-> [live |-> FALSE, dead |-> FALSE, wrote |-> FALSE, snaps |-> {}]]

\* every action ends with the observations of the state it produces; the steps of
\* the index, of the handlers and of the subscribers leave Auth.tokens as it is
Track ==
    /\ tokens' = tokens
    /\ dbIndex' = dbIndex
    /\ obs' = Observe(nodes', procs', obs)

(* ------------------------------ locking -------------------------------- *)
\* a Lock that never waits (no mutual exclusion)
CanLockAlways(n) == TRUE

\* mtx.Lock() on node n by p can return: nobody holds it
CanLock(n) == nodes[n].mtx = 0

\* mtx.Unlock() on every node of set s
Unlock(ns, s) == [n \in NodeIds |-> IF n \in s THEN [ns[n] EXCEPT !.mtx = 0] ELSE ns[n]]

\* the unlock loops of Upsert and Remove: from highestLocked down to 0, every
\* predecessor whose lockMap entry is true
PredsToUnlock(l, highest) ==
    {l.preds[j + 1] : j \in 0..highest} \cap l.locked

(* ------------------------------- calls --------------------------------- *)
\* the start of find: pred := head, level := len(head.next) - 1, foundLevel := -1.
\* No node is ever linked above the highest level randomLevel draws, so the Loads of
\* the levels above it read pointers nobody writes; they are made with the call.
RECURSIVE FindUpper(_, _)
StartFind(l, ns) ==
    FindUpper([l EXCEPT !.pc = "find", !.pred = HeadId, !.level = Height - 1,
                        !.foundLevel = -1, !.preds = NilLevels, !.succs = NilLevels,
                        !.locked = {}, !.highestLocked = -1], ns)

\* a goroutine makes its next call. Upsert picks its random top level first.
Call(p) ==
    /\ procs[p].pc = "idle"
    /\ prog[p] # <<>>
    /\ LET op == Head(prog[p])
       IN  procs' = [procs EXCEPT ![p] =
                IF op.kind = "query"
                THEN [Idle EXCEPT !.pc = "q_cond", !.op = op]
                ELSE StartFind([Idle EXCEPT !.op = op,
                                     !.before = IF op.chk = "err" THEN Contents(nodes)
                                                ELSE <<>>], nodes)]
    /\ prog' = [prog EXCEPT ![p] = Tail(prog[p])]
    /\ UNCHANGED <<nodes, clock, cancelled, hist, nCheck>>
    /\ UNCHANGED <<docs, subs>>
    /\ Track

\* the handler is not done when its call returns: delete goes on to notify when
\* DeleteDocument or DeleteCollection returned ok, and the time then is the one its
\* frame is about; post tries another name when PutDocument returned an error
\* and a document (err != nil && doc != nil: the name was taken)
GoesOn(l, res) ==
    /\ res.status = 0
    /\ \/ l.act \in {"deldoc", "delcol"} /\ res.op.kind = "remove" /\ res.ok
       \/ l.act = "post" /\ res.op.kind = "upsert" /\ res.err /\ res.exists

After(l, res, now) ==
    IF l.act = "post"
    THEN [Idle EXCEPT !.pc = "p_name", !.op = LookupOp(l.req.key), !.req = l.req,
                      !.retStatus = l.retStatus, !.act = l.act, !.i = l.i]
    ELSE [Idle EXCEPT !.pc = "d_removed", !.op = LookupOp(l.req.key), !.req = l.req,
                      !.retStatus = l.retStatus, !.act = l.act, !.i = now]

\* a call returns: its result is recorded and its locals are dropped, unless the
\* handler that made it goes on
Return(p, res) ==
  IF GoesOn(procs[p], res)
  THEN /\ procs' = [procs EXCEPT ![p] = After(procs[p], res, clock)]
       /\ UNCHANGED hist
  ELSE
    /\ procs' = [procs EXCEPT ![p] = Idle]
    /\ hist' = [hist EXCEPT ![p] = Append(hist[p],
                  [res EXCEPT !.kept = (res.op.chk = "err") => (procs[p].before = Contents(nodes')),
                              !.sawLive = obs[p].live,
                              !.sawDead = obs[p].dead,
                              !.wrote = obs[p].wrote \/ (res.op.kind = "remove" /\ nodes' # nodes),
                              !.snaps = obs[p].snaps,
                              !.op = IF procs[p].req.kind = "none" THEN res.op
                                     ELSE procs[p].req,
                              !.status = FinalStatus(procs[p], res),
                              !.patchFailed = procs[p].patchFailed,
                              !.viaUpsert = (procs[p].req.kind # "none"
                                             /\ procs[p].op.kind = "upsert"),
                              !.notified = procs[p].notified,
                              !.docWas = procs[p].cur,
                              !.docIs = IF HandlerCheck(procs[p].op.chk) /\ res.exists
                                        THEN docs[procs[p].tmp] ELSE res.docIs])]

(* -------------------------------- find --------------------------------- *)
\* where a call goes on when its find has returned
AfterFind(l) ==
    CASE l.op.kind = "upsert" ->
            IF l.foundLevel # -1
            THEN [l EXCEPT !.pc = "u_found", !.victim = l.succs[l.foundLevel + 1]]
            ELSE [l EXCEPT !.pc = "u_lockpred", !.level = 0, !.highestLocked = -1]
      [] l.op.kind = "remove" ->
            [l EXCEPT !.pc = IF l.isMarked THEN "r_lockpred" ELSE "r_first",
                      !.victim = IF l.foundLevel # -1 THEN l.succs[l.foundLevel + 1]
                                 ELSE l.victim,
                      !.level = 0, !.highestLocked = -1]
      [] l.op.kind = "lookup" -> [l EXCEPT !.pc = "h_resolved"]
      [] OTHER -> [l EXCEPT !.pc = "f_ret"]

\* one Load of find: curr := pred.next[level]; either move right (key > curr.key)
\* or note the level's pred and succ and go one level down
\* a descent that never moves right: every level ends at the head's successor
FindLoadStays(l, ns) ==
    LET curr == ns[l.pred].next[l.level + 1]
        fl == IF l.foundLevel = -1 /\ l.op.key = ns[curr].key
              THEN l.level ELSE l.foundLevel
        l2 == [l EXCEPT !.foundLevel = fl,
                        !.preds[l.level + 1] = l.pred,
                        !.succs[l.level + 1] = curr,
                        !.level = l.level - 1]
    IN  IF l2.level < 0 THEN AfterFind(l2) ELSE l2

\* a descent that waits at a node whose lock is held
FindLoadWaits(l, ns) ==
    LET curr == ns[l.pred].next[l.level + 1]
    IN  IF ns[curr].mtx # 0
        THEN l
        ELSE IF l.op.key > ns[curr].key
        THEN [l EXCEPT !.pred = curr]
        ELSE LET fl == IF l.foundLevel = -1 /\ l.op.key = ns[curr].key
                       THEN l.level ELSE l.foundLevel
                 l2 == [l EXCEPT !.foundLevel = fl,
                                 !.preds[l.level + 1] = l.pred,
                                 !.succs[l.level + 1] = curr,
                                 !.level = l.level - 1]
             IN  IF l2.level < 0 THEN AfterFind(l2) ELSE l2

FindLoad(l, ns) ==
    LET curr == ns[l.pred].next[l.level + 1]
    IN  IF l.op.key > ns[curr].key
        THEN [l EXCEPT !.pred = curr]
        ELSE LET fl == IF l.foundLevel = -1 /\ l.op.key = ns[curr].key
                       THEN l.level ELSE l.foundLevel
                 l2 == [l EXCEPT !.foundLevel = fl,
                                 !.preds[l.level + 1] = l.pred,
                                 !.succs[l.level + 1] = curr,
                                 !.level = l.level - 1]
             IN  IF l2.level < 0 THEN AfterFind(l2) ELSE l2

FindUpper(l, ns) ==
    IF l.pc = "find" /\ l.level > Max(RandomLevels)
    THEN FindUpper(FindLoad(l, ns), ns) ELSE l

FindStep(p) ==
    /\ procs[p].pc = "find"
    /\ procs' = [procs EXCEPT ![p] = FindLoad(procs[p], nodes)]
    /\ UNCHANGED <<nodes, clock, cancelled, prog, hist, nCheck>>
    /\ UNCHANGED <<docs, subs>>
    /\ Track

\* Find after find: not found, or found but marked or not fully linked, gives
\* (zero, false); else (foundNode.value, true)
FindResult(l, ns) ==
    IF l.foundLevel = -1 THEN [val |-> 0, ok |-> FALSE]
    ELSE LET n == l.succs[l.foundLevel + 1]
         IN  IF ns[n].marked \/ ~ns[n].fullyLinked
             THEN [val |-> 0, ok |-> FALSE]
             ELSE [val |-> ns[n].value, ok |-> TRUE]

FindReturn(p) ==
    /\ procs[p].pc = "f_ret"
    /\ UNCHANGED <<nodes, clock, cancelled, prog, nCheck>>
    /\ LET r == FindResult(procs[p], nodes)
       IN  Return(p, Result(procs[p].op, r.val, r.ok, FALSE, FALSE))
    /\ UNCHANGED <<docs, subs>>
    /\ Track

(* ------------------------------- Upsert -------------------------------- *)
\* the key was found: if !found.marked, else try again
UpsertFoundMarked(l, ns) ==
    IF ~ns[l.victim].marked THEN [l EXCEPT !.pc = "u_spin"] ELSE StartFind(l, ns)

UpsertFound(p) ==
    /\ procs[p].pc = "u_found"
    /\ procs' = [procs EXCEPT ![p] = UpsertFoundMarked(procs[p], nodes)]
    /\ UNCHANGED <<nodes, clock, cancelled, prog, hist, nCheck>>
    /\ UNCHANGED <<docs, subs>>
    /\ Track

\* for !found.fullyLinked {}: one read of the flag
UpsertSpin(p) ==
    /\ procs[p].pc = "u_spin"
    /\ procs' = [procs EXCEPT ![p].pc =
                    IF nodes[procs[p].victim].fullyLinked THEN "u_lock" ELSE "u_spin"]
    /\ UNCHANGED <<nodes, clock, cancelled, prog, hist, nCheck>>
    /\ UNCHANGED <<docs, subs>>
    /\ Track

\* found.mtx.Lock(), then under the lock: still unmarked and fully linked?
UpsertLockedOk(n) == ~n.marked /\ n.fullyLinked

\* found.mtx.Lock(); if it is still there, found.time = time.Now() and check is
\* about to be called; else Unlock and try again
UpsertLockFound(p) ==
    /\ procs[p].pc = "u_lock"
    /\ CanLock(procs[p].victim)
    /\ LET f == procs[p].victim
       IN  IF UpsertLockedOk(nodes[f])
           THEN /\ nodes' = [nodes EXCEPT ![f].mtx = p, ![f].time = Now]
                /\ clock' = Now
                /\ procs' = [procs EXCEPT ![p].pc = "u_check"]
           ELSE /\ procs' = [procs EXCEPT ![p] = StartFind(procs[p], nodes)]
                /\ UNCHANGED <<nodes, clock>>
    /\ UNCHANGED <<cancelled, prog, hist, nCheck>>
    /\ UNCHANGED <<docs, subs>>
    /\ Track

\* check(key, found.value, true) starts: an in-place check reads *currValue
UpsertCheckCall(p) ==
    /\ procs[p].pc = "u_check"
    /\ procs' = [procs EXCEPT ![p].pc = "u_checked",
                              ![p].tmp = nodes[procs[p].victim].value,
                              ![p].cur = IF HandlerCheck(procs[p].op.chk)
                                         THEN docs[nodes[procs[p].victim].value]
                                         ELSE NoDoc]
    /\ nCheck' = [nCheck EXCEPT ![procs[p].op.key].t = @ + 1]
    /\ UNCHANGED <<nodes, clock, cancelled, prog, hist>>
    /\ UNCHANGED <<docs, subs>>
    /\ Track

\* what check(key, curr, true) leaves in the found node's value, by kind of check:
\* "add" (pointerFunc) writes *currValue = read + 2 in place; "ret" (funcVar) and
\* "err" write nothing. The value check returns is never stored by Upsert.
StoredAfterCheck(kind, read, stored) ==
    IF kind = "add" THEN read + PtrAdd ELSE stored

\* what check(key, curr, true) returns
ReturnedByCheck(kind, read) ==
    CASE kind = "add" -> read + PtrAdd
      [] kind = "ret" -> read + ValAdd
      [] OTHER -> read

\* a handler's check has run to its end: its body is done and notifySubscriptions
\* is through the subscribers
CheckOver(l) == HandlerCheck(l.op.chk) => (l.applied /\ l.pending = {})

\* check returns; found.mtx.Unlock(); return toPut, err
UpsertCheckReturn(p) ==
    /\ procs[p].pc = "u_checked"
    /\ CheckOver(procs[p])
    /\ LET l == procs[p]
           f == l.victim
       IN  /\ nodes' = [nodes EXCEPT
                  ![f].value = StoredAfterCheck(l.op.chk, l.tmp, nodes[f].value),
                  ![f].mtx = 0]
           /\ Return(p, Result(l.op, ReturnedByCheck(l.op.chk, l.tmp), TRUE,
                               l.op.chk = "err" \/ l.chkErr, TRUE))
    /\ UNCHANGED <<clock, cancelled, prog, nCheck>>
    /\ UNCHANGED <<docs, subs>>
    /\ Track

\* a validation that forgets to look whether pred or succ is marked
UpsertValidUnmarked(ns, pr, sc, level) ==
    NodeEquals(ns, ns[pr].next[level + 1], sc)

\* a validation that forgets to look whether the predecessor still points to succ
UpsertValidUnconnected(ns, pr, sc, level) ==
    ~ns[pr].marked /\ ~ns[sc].marked

\* after locking preds[level]: neither it nor succs[level] is marked, and it still
\* points to succs[level]
UpsertValid(ns, pr, sc, level) ==
    /\ ~ns[pr].marked /\ ~ns[sc].marked
    /\ NodeEquals(ns, ns[pr].next[level + 1], sc)

\* one round of the loop that locks the predecessors, level 0 first. When a level
\* is not valid every lock taken is released and the call starts over.
UpsertLockPred(p) ==
    /\ procs[p].pc = "u_lockpred"
    /\ LET l == procs[p]
           pr == l.preds[l.level + 1]
           sc == l.succs[l.level + 1]
       IN  /\ pr \in l.locked \/ CanLock(pr)
           /\ IF UpsertValid(nodes, pr, sc, l.level)
              THEN /\ nodes' = [nodes EXCEPT ![pr].mtx = p]
                   /\ procs' = [procs EXCEPT ![p] =
                          [l EXCEPT !.locked = @ \cup {pr},
                                    !.highestLocked = l.level,
                                    !.level = l.level + 1,
                                    !.pc = IF l.level + 1 <= l.op.top
                                           THEN "u_lockpred" ELSE "u_new"]]
              ELSE /\ nodes' = Unlock(nodes,
                          PredsToUnlock([l EXCEPT !.locked = @ \cup {pr}], l.level))
                   /\ procs' = [procs EXCEPT ![p] = StartFind(l, nodes')]
    /\ UNCHANGED <<clock, cancelled, prog, hist, nCheck>>
    /\ UNCHANGED <<docs, subs>>
    /\ Track

\* what check(key, empty, false) returns as the value of the new entry
NewValue(kind) == IF kind = "add" THEN PtrAdd ELSE ValAdd

\* the locks an Upsert whose check(key, empty, false) failed gives back before it
\* returns the error: none, the return statement comes before any Unlock
UnlockedOnError(l) == {}

\* check(key, empty, false) with the predecessors locked. On an error Upsert
\* returns it; else the node is made, with its next pointers set to the succs.
UpsertNew(p) ==
    /\ procs[p].pc = "u_new"
    /\ CheckOver(procs[p])
    /\ LET l == procs[p]
           n == NewNodeId(p)
       IN  /\ nCheck' = [nCheck EXCEPT ![l.op.key].f = @ + 1]
           /\ IF l.op.chk = "err" \/ l.chkErr
              THEN /\ nodes' = Unlock(nodes, UnlockedOnError(l))
                   /\ Return(p, Result(l.op, 0, FALSE, TRUE, FALSE))
                   /\ UNCHANGED clock
              ELSE /\ nodes' = [nodes EXCEPT ![n] =
                          [key |-> l.op.key,
                           value |-> IF HandlerCheck(l.op.chk) THEN n
                                     ELSE NewValue(l.op.chk),
                           mtx |-> 0,
                           topLevel |-> l.op.top, marked |-> FALSE,
                           fullyLinked |-> FALSE, time |-> Now,
                           next |-> [j \in 1..(l.op.top + 1) |-> l.succs[j]]]]
                   /\ clock' = Now
                   /\ procs' = [procs EXCEPT ![p].pc = "u_link", ![p].node = n,
                                             ![p].level = 0]
                   /\ UNCHANGED hist
    /\ UNCHANGED <<cancelled, prog>>
    /\ UNCHANGED <<docs, subs>>
    /\ Track

\* preds[level].next[level].Store(&node), bottom up
UpsertLink(p) ==
    /\ procs[p].pc = "u_link"
    /\ LET l == procs[p]
       IN  /\ nodes' = [nodes EXCEPT ![l.preds[l.level + 1]].next[l.level + 1] = l.node]
           /\ procs' = [procs EXCEPT ![p].level = l.level + 1,
                                     ![p].pc = IF l.level + 1 <= l.op.top
                                               THEN "u_link" ELSE "u_linked"]
    /\ UNCHANGED <<clock, cancelled, prog, hist, nCheck>>
    /\ UNCHANGED <<docs, subs>>
    /\ Track

\* node.fullyLinked = true, the predecessors are unlocked, return value, nil
UpsertFinish(p) ==
    /\ procs[p].pc = "u_linked"
    /\ LET l == procs[p]
       IN  /\ nodes' = Unlock([nodes EXCEPT ![l.node].fullyLinked = TRUE],
                              PredsToUnlock(l, l.highestLocked))
           /\ Return(p, Result(l.op, nodes[l.node].value, TRUE, FALSE, FALSE))
    /\ UNCHANGED <<clock, cancelled, prog, nCheck>>
    /\ UNCHANGED <<docs, subs>>
    /\ Track

(* ------------------------------- Remove -------------------------------- *)
\* a Remove that takes a victim whose insertion is not finished
RemoveGivesUpUnlessLinking(l, ns) ==
    \/ l.foundLevel = -1
    \/ ns[l.victim].marked

\* first time through, before the victim is locked: Remove gives up (zero, false)
\* when the key was not found, or the node found is not fully linked, is marked,
\* or was not found at its top level
RemoveGivesUp(l, ns) ==
    \/ l.foundLevel = -1
    \/ ~ns[l.victim].fullyLinked
    \/ ns[l.victim].marked
    \/ ns[l.victim].topLevel # l.foundLevel

RemoveFirst(p) ==
    /\ procs[p].pc = "r_first"
    /\ UNCHANGED <<nodes, clock, cancelled, prog, nCheck>>
    /\ LET l == procs[p]
       IN  IF RemoveGivesUp(l, nodes)
           THEN Return(p, Result(l.op, 0, FALSE, FALSE, FALSE))
           ELSE /\ procs' = [procs EXCEPT ![p].pc = "r_lockv",
                                          ![p].topLevel = nodes[l.victim].topLevel]
                /\ UNCHANGED hist
    /\ UNCHANGED <<docs, subs>>
    /\ Track

\* under the victim's lock: another Remove call beat us, the victim is marked
RemoveBeaten(ns, v) == ns[v].marked

\* victim.mtx.Lock(): another Remove beat us to it (Unlock, return false), or the
\* victim is marked and stays locked
RemoveLockVictim(p) ==
    /\ procs[p].pc = "r_lockv"
    /\ CanLock(procs[p].victim)
    /\ LET l == procs[p]
       IN  IF RemoveBeaten(nodes, l.victim)
           THEN /\ UNCHANGED nodes
                /\ Return(p, Result(l.op, 0, FALSE, FALSE, FALSE))
           ELSE /\ nodes' = [nodes EXCEPT ![l.victim].mtx = p, ![l.victim].marked = TRUE]
                /\ procs' = [procs EXCEPT ![p].pc = "r_lockpred", ![p].isMarked = TRUE,
                                          ![p].level = 0, ![p].highestLocked = -1]
                /\ UNCHANGED hist
    /\ UNCHANGED <<clock, cancelled, prog, nCheck>>
    /\ UNCHANGED <<docs, subs>>
    /\ Track

\* after locking preds[level]: it is not marked and still points to the victim
RemoveValid(ns, pr, victim, level) ==
    /\ ~ns[pr].marked
    /\ NodeEquals(ns, ns[pr].next[level + 1], victim)

\* one round of the loop that locks the victim's predecessors, level 0 first. When
\* a level is not valid the predecessors are unlocked and find runs again; the
\* victim stays locked and marked.
RemoveLockPred(p) ==
    /\ procs[p].pc = "r_lockpred"
    /\ LET l == procs[p]
           pr == l.preds[l.level + 1]
       IN  /\ pr \in l.locked \/ CanLock(pr)
           /\ IF RemoveValid(nodes, pr, l.victim, l.level)
              THEN /\ nodes' = [nodes EXCEPT ![pr].mtx = p]
                   /\ procs' = [procs EXCEPT ![p] =
                          IF l.level + 1 <= l.topLevel
                          THEN [l EXCEPT !.locked = @ \cup {pr},
                                         !.highestLocked = l.level,
                                         !.level = l.level + 1]
                          ELSE [l EXCEPT !.locked = @ \cup {pr},
                                         !.highestLocked = l.level,
                                         !.level = l.topLevel,
                                         !.pc = "r_unlink"]]
              ELSE /\ nodes' = Unlock(nodes,
                          PredsToUnlock([l EXCEPT !.locked = @ \cup {pr}], l.level))
                   /\ procs' = [procs EXCEPT ![p] = StartFind(l, nodes')]
    /\ UNCHANGED <<clock, cancelled, prog, hist, nCheck>>
    /\ UNCHANGED <<docs, subs>>
    /\ Track

\* preds[level].next[level].Store(victim.next[level].Load()), top down. After the
\* Store at level 0 the victim and the predecessors are unlocked and Remove returns
\* (victim.value, true).
RemoveUnlink(p) ==
    /\ procs[p].pc = "r_unlink"
    /\ LET l == procs[p]
           ns == [nodes EXCEPT ![l.preds[l.level + 1]].next[l.level + 1] =
                                     nodes[l.victim].next[l.level + 1]]
       IN  IF l.level > 0
           THEN /\ nodes' = ns
                /\ procs' = [procs EXCEPT ![p].level = l.level - 1]
                /\ UNCHANGED hist
           ELSE /\ nodes' = Unlock(ns, {l.victim} \cup PredsToUnlock(l, l.highestLocked))
                /\ Return(p, Result(l.op, nodes[l.victim].value, TRUE, FALSE, FALSE))
    /\ UNCHANGED <<clock, cancelled, prog, nCheck>>
    /\ UNCHANGED <<docs, subs>>
    /\ Track

(* -------------------------------- Query -------------------------------- *)
\* A context is "nil" (none, or one that is never done, like context.TODO()),
\* "cancel" (cancellable, no deadline) or "deadline" (cancellable, with a deadline).
Deadline == NumKeys + DeadlineIn

\* ctx.Deadline() returned ok
HasDeadline(ctx) == ctx = "deadline"

\* ctx.Err() != nil: cancelled, or the deadline has passed
CtxDone(ctx) == ctx # "nil" /\ (cancelled \/ (HasDeadline(ctx) /\ clock > Deadline))

\* the loop condition of Query:
\* ctxNil || !ok || !time.Now().After(giveUpTime) || ctx.Err() == nil
QueryKeepsTrying(ctx) ==
    \/ ctx = "nil"
    \/ ~HasDeadline(ctx)
    \/ ~(clock > Deadline)
    \/ ~CtxDone(ctx)

\* the loop condition of both scans: the next node is not the tail and its key is
\* in [start, end]
InScan(ns, n, lo, hi) ==
    /\ ~NodeEquals(ns, n, TailId)
    /\ ns[n].key >= lo
    /\ ns[n].key <= hi

\* the loop test; if it passes the first scan starts at head.next[0], else Query
\* returns the deadline error
QueryCond(p) ==
    /\ procs[p].pc = "q_cond"
    /\ UNCHANGED <<nodes, clock, cancelled, prog, nCheck>>
    /\ LET l == procs[p]
       IN  IF QueryKeepsTrying(l.op.ctx)
           THEN /\ procs' = [procs EXCEPT ![p] =
                       [l EXCEPT !.pc = "q_scan1", !.next = nodes[HeadId].next[1],
                                 !.firstIter = <<>>, !.keys = <<>>, !.values = <<>>,
                                 !.afterDone = @ \/ (l.retried /\ CtxDone(l.op.ctx))]]
                /\ UNCHANGED hist
           ELSE Return(p, Result(l.op, [keys |-> <<>>, values |-> <<>>], FALSE, TRUE, FALSE))
    /\ UNCHANGED <<docs, subs>>
    /\ Track

\* one round of the first scan: the node is noted, with its key and a copy of its
\* value, unless it is marked; then next := curr.next[0]. When the scan ends the
\* second one starts at head.next[0].
QueryFirstScan(p) ==
    /\ procs[p].pc = "q_scan1"
    /\ LET l == procs[p]
           c == l.next
       IN  procs' = [procs EXCEPT ![p] =
              IF InScan(nodes, c, l.op.key, l.op.hi)
              THEN IF ~nodes[c].marked
                   THEN IF l.op.chk = "copy"
                        THEN [l EXCEPT !.pc = "q_copy",
                                       !.firstIter = Append(@, c),
                                       !.keys = Append(@, nodes[c].key),
                                       !.tmp = nodes[c].value,
                                       !.cur = [NoDoc EXCEPT
                                                   !.name = docs[nodes[c].value].name,
                                                   !.data = docs[nodes[c].value].data],
                                       !.next = nodes[c].next[1]]
                        ELSE [l EXCEPT !.firstIter = Append(@, c),
                                       !.keys = Append(@, nodes[c].key),
                                       !.values = Append(@, nodes[c].value),
                                       !.next = nodes[c].next[1]]
                   ELSE [l EXCEPT !.next = nodes[c].next[1]]
              ELSE [l EXCEPT !.pc = "q_scan2", !.allOk = TRUE, !.i = 0,
                             !.next = nodes[HeadId].next[1],
                             !.mid = Linked(nodes)]]
    /\ UNCHANGED <<nodes, clock, cancelled, prog, hist, nCheck>>
    /\ UNCHANGED <<docs, subs>>
    /\ Track

\* a copier that returns the document it was given
CopyShared(d, read) == [ref |-> d, obj |-> NoDoc]

\* Document.Copy: a new Document with the fields read from d; it belongs to the
\* caller and nothing else refers to it (ref 0)
Copy(d, read) == [ref |-> 0, obj |-> read]

\* the document behind an element of a Query's result
Deref(ds, e) == IF e.ref # 0 THEN ds[e.ref] ELSE e.obj

\* the copier of QueryDocuments, called by the first scan without any lock: Copy
\* has read name and data, and now reads the metadata
QueryCopy(p) ==
    /\ procs[p].pc = "q_copy"
    /\ LET l == procs[p]
           d == docs[l.tmp]
       IN  procs' = [procs EXCEPT ![p] =
               [l EXCEPT !.pc = "q_scan1", !.cur = NoDoc, !.tmp = 0,
                         !.values = Append(@, Copy(l.tmp, [d EXCEPT !.name = l.cur.name,
                                                                    !.data = l.cur.data]))]]
    /\ UNCHANGED <<nodes, clock, cancelled, prog, hist, nCheck, docs, subs>>
    /\ Track

\* one round of the second scan: first_iter[i].equals(curr) && !curr.marked, else
\* allOk = false. The scan ends at the tail, outside [start, end], when first_iter
\* is used up, or at a mismatch; then Query returns what the first scan collected
\* if allOk, and else tries again.
QuerySecondScan(p) ==
    /\ procs[p].pc = "q_scan2"
    /\ UNCHANGED <<nodes, clock, cancelled, prog, nCheck>>
    /\ LET l == procs[p]
           c == l.next
       IN  IF InScan(nodes, c, l.op.key, l.op.hi) /\ l.i < Len(l.firstIter) /\ l.allOk
           THEN /\ procs' = [procs EXCEPT ![p] =
                      [l EXCEPT !.allOk = NodeEquals(nodes, l.firstIter[l.i + 1], c)
                                              /\ ~nodes[c].marked,
                                !.i = l.i + 1,
                                !.next = nodes[c].next[1]]]
                /\ UNCHANGED hist
           ELSE IF l.allOk
                THEN Return(p, [Result(l.op, [keys |-> l.keys, values |-> l.values],
                                       TRUE, FALSE, FALSE)
                                   EXCEPT !.kept = (l.mid = Linked(nodes))])
                ELSE /\ procs' = [procs EXCEPT ![p].pc = "q_cond", ![p].retried = TRUE]
                     /\ UNCHANGED hist
    /\ UNCHANGED <<docs, subs>>
    /\ Track

\* the caller cancels the context of a Query
Cancel ==
    /\ ~cancelled
    /\ \E p \in Procs : procs[p].op.kind = "query" /\ procs[p].op.ctx # "nil"
    /\ cancelled' = TRUE
    /\ UNCHANGED <<nodes, clock, procs, prog, hist, nCheck>>
    /\ UNCHANGED <<docs, subs>>
    /\ Track

\* time passes while a Query with a deadline runs, and while Auth is called
Tick ==
    /\ \E p \in Procs :
          \/ procs[p].op.kind = "query" /\ HasDeadline(procs[p].op.ctx)
          \/ procs[p].op.kind \in AuthKinds
          \/ prog[p] # <<>> /\ Head(prog[p]).kind \in AuthKinds
    /\ clock <= Deadline
    /\ clock' = clock + 1
    /\ UNCHANGED <<nodes, cancelled, procs, prog, hist, nCheck>>
    /\ UNCHANGED <<docs, subs>>
    /\ Track

(* ----------------------------- subscribers ----------------------------- *)
\* a subscriber of the collection: its range of document names; where its goroutine
\* is (st); whether its request's context is done (ctx); whether its reader channel
\* is in the collection's map (inSet) and its done channel is closed (closed); the
\* document it found (ptr); the frame it is handling; the messages it received and
\* the frames it wrote to its client; and for the properties the calls every
\* goroutine had begun when it was added to the map (reg)
NoSub ==
    [low |-> 0, high |-> 0, st |-> "none", ctx |-> FALSE, inSet |-> FALSE,
     closed |-> FALSE, ptr |-> 0, frame |-> NoMsg, got |-> <<>>, wrote |-> <<>>,
     reg |-> [p \in Procs |-> 0]]

\* a subscriber to document k has low = high = k; here it is in its loop
DocSubscriber(k) ==
    [NoSub EXCEPT !.low = k, !.high = k, !.st = "select", !.inSet = TRUE]
CollectionSubscriber(lo, hi) ==
    [NoSub EXCEPT !.low = lo, !.high = hi, !.st = "select", !.inSet = TRUE]

\* a GET with mode=subscribe of document k that has just arrived
NewDocSubscriber(k) == [NoSub EXCEPT !.low = k, !.high = k, !.st = "new"]

\* Collection.AllSubscribers: a copy of the map
AllSubscribers == {s \in Subs : subs[s].inSet}

\* a subscriber that writes every frame it receives
InRangeAlways(sub, docName) == TRUE

\* formattedData.docName >= low && formattedData.docName <= high
InRange(sub, docName) == docName >= sub.low /\ docName <= sub.high

\* data := <-reader, and the test of the range
Receive(sub, msg) ==
    [sub EXCEPT !.got = Append(@, msg), !.frame = msg,
                !.st = IF InRange(sub, msg.docName) THEN "writing" ELSE "select"]

\* Find run to its end at once
RECURSIVE FindAll(_, _)
FindAll(l, ns) == IF l.pc = "find" THEN FindAll(FindLoad(l, ns), ns) ELSE l

FindNow(ns, k) == FindResult(FindAll(StartFind([Idle EXCEPT !.op = FindOp(k)], ns), ns), ns)

\* get: lastRealItem looks for the document; createAndHandleSubscription is called
\* when it is there, else the answer is 404
SubStart(s) ==
    /\ subs[s].st = "new"
    /\ subs' = [subs EXCEPT ![s].st = IF FindNow(nodes, subs[s].low).ok
                                      THEN "found" ELSE "refused"]
    /\ UNCHANGED <<nodes, clock, cancelled, procs, prog, hist, nCheck, docs>>
    /\ Track

\* collection.FindDocument(docName); if ok, DocumentJsonMake reads d.data
SubInitial(s) ==
    /\ subs[s].st = "found"
    /\ LET r == FindNow(nodes, subs[s].low)
       IN  subs' = [subs EXCEPT ![s] =
               IF r.ok THEN [@ EXCEPT !.st = "initial", !.ptr = r.val,
                                      !.frame = [NoMsg EXCEPT !.doc.data = docs[r.val].data]]
               ELSE [@ EXCEPT !.st = "started"]]
    /\ UNCHANGED <<nodes, clock, cancelled, procs, prog, hist, nCheck, docs>>
    /\ Track

\* DocumentJsonMake reads d.metadata; the frame with the existing state of the
\* document is written as an update
SubInitialMeta(s) ==
    /\ subs[s].st = "initial"
    /\ LET d == [docs[subs[s].ptr] EXCEPT !.data = subs[s].frame.doc.data]
           m == UpdateMsg(subs[s].low, d, Now, <<0, 0>>)
       IN  subs' = [subs EXCEPT ![s].st = "started", ![s].frame = m,
                                ![s].wrote = Append(@, m)]
    /\ clock' = Now
    /\ UNCHANGED <<nodes, cancelled, procs, prog, hist, nCheck, docs>>
    /\ Track

\* the calls of goroutine p that began before now
Begun(p) == Len(hist[p]) + (IF procs[p].pc = "idle" THEN 0 ELSE 1)

\* collection.AddSubscriber(reader, done), and the loop begins
SubRegister(s) ==
    /\ subs[s].st = "started"
    /\ subs' = [subs EXCEPT ![s].st = "select", ![s].inSet = TRUE,
                            ![s].reg = [p \in Procs |-> Begun(p)]]
    /\ UNCHANGED <<nodes, clock, cancelled, procs, prog, hist, nCheck, docs>>
    /\ Track

\* wf.Write and wf.Flush come back: the client took the bytes
SubWrite(s) ==
    /\ subs[s].st = "writing"
    /\ subs' = [subs EXCEPT ![s].st = "select",
                            ![s].wrote = IF subs[s].frame.ev = "keepalive" THEN @
                                         ELSE Append(@, subs[s].frame)]
    /\ UNCHANGED <<nodes, clock, cancelled, procs, prog, hist, nCheck, docs>>
    /\ Track

\* case <-time.After(15 * time.Second): the subscriber writes a keep-alive
SubKeepAlive(s) ==
    /\ subs[s].st = "select"
    /\ subs' = [subs EXCEPT ![s].st = "writing", ![s].frame = KeepAliveMsg]
    /\ UNCHANGED <<nodes, clock, cancelled, procs, prog, hist, nCheck, docs>>
    /\ Track

\* the client of a subscriber in its loop goes away: r.Context() is done
SubCancel(s) ==
    /\ subs[s].inSet
    /\ subs[s].st \in {"select", "writing"}
    /\ ~subs[s].ctx
    /\ subs' = [subs EXCEPT ![s].ctx = TRUE]
    /\ UNCHANGED <<nodes, clock, cancelled, procs, prog, hist, nCheck, docs>>
    /\ Track

\* case <-r.Context().Done(): return
SubDone(s) ==
    /\ subs[s].st = "select"
    /\ subs[s].ctx
    /\ subs' = [subs EXCEPT ![s].st = "returning"]
    /\ UNCHANGED <<nodes, clock, cancelled, procs, prog, hist, nCheck, docs>>
    /\ Track

\* deferred calls that run in the order they were deferred in
RunDeferredInOrder(sub) ==
    IF ~sub.closed THEN [sub EXCEPT !.closed = TRUE]
    ELSE [sub EXCEPT !.inSet = FALSE, !.st = "gone"]

\* the next deferred call of a subscriber that returns: the last deferred comes
\* first, collection.DeleteSubscriber(reader), then close(done)
RunDeferred(sub) ==
    IF sub.inSet THEN [sub EXCEPT !.inSet = FALSE]
    ELSE [sub EXCEPT !.closed = TRUE, !.st = "gone"]

SubDefer(s) ==
    /\ subs[s].st = "returning"
    /\ subs' = [subs EXCEPT ![s] = RunDeferred(subs[s])]
    /\ UNCHANGED <<nodes, clock, cancelled, procs, prog, hist, nCheck, docs>>
    /\ Track

(* ------------------------------ handlers ------------------------------- *)
\* the tokens of the server: every user has one that expires an hour after the
\* start (AddToken), and one token has expired
ExpiredToken == NumProcs + 1
UnknownToken == NumProcs + 2
Tokens ==
    [t \in 0..ExpiredToken |->
        [name |-> t, expiry |-> IF t = ExpiredToken THEN 0 ELSE Hour]]

\* auth.IsTokenValid: the token is known and time.Now() is not after its expiry
IsTokenValid(token, now) ==
    IF token \notin DOMAIN tokens THEN [name |-> -1, ok |-> FALSE]
    ELSE IF now > tokens[token].expiry THEN [name |-> -1, ok |-> FALSE]
    ELSE [name |-> tokens[token].name, ok |-> TRUE]

\* sync.Map's Load, LoadAndDelete and LoadOrStore on Auth.tokens: the value (or the
\* one stored before), whether it was there, and the map afterwards
Load(ts, t) ==
    [data |-> IF t \in DOMAIN ts THEN ts[t] ELSE NoToken, ok |-> t \in DOMAIN ts, ts |-> ts]

\* a LoadAndDelete that leaves the token in the map
LoadAndKeep(ts, t) ==
    [data |-> IF t \in DOMAIN ts THEN ts[t] ELSE NoToken, ok |-> t \in DOMAIN ts, ts |-> ts]

LoadAndDelete(ts, t) ==
    [data |-> IF t \in DOMAIN ts THEN ts[t] ELSE NoToken, ok |-> t \in DOMAIN ts,
     ts |-> [u \in DOMAIN ts \ {t} |-> ts[u]]]

LoadOrStore(ts, t, v) ==
    [data |-> IF t \in DOMAIN ts THEN ts[t] ELSE v, ok |-> t \in DOMAIN ts,
     ts |-> IF t \in DOMAIN ts THEN ts
            ELSE [u \in DOMAIN ts \cup {t} |-> IF u = t THEN v ELSE ts[u]]]

\* the tokens generateRandomToken can give
TokenDraws == 1..NumTokens

\* a goroutine calls IsTokenValid, DeleteToken or AddToken
AuthCall(p) ==
    /\ procs[p].pc = "idle"
    /\ prog[p] # <<>>
    /\ Head(prog[p]).kind \in AuthKinds
    /\ procs' = [procs EXCEPT ![p] = [Idle EXCEPT !.pc = "a_map", !.op = Head(prog[p])]]
    /\ prog' = [prog EXCEPT ![p] = Tail(prog[p])]
    /\ UNCHANGED <<nodes, clock, cancelled, hist, nCheck, docs, subs, tokens, dbIndex>>
    /\ obs' = Observe(nodes', procs', obs)

\* the call's operation on the map. IsTokenValid: tokens.Load(token); DeleteToken:
\* tokens.LoadAndDelete(token); AddToken: expiry is an hour from now, and
\* tokens.LoadOrStore(token, nameAndExp) with a random token, again until the
\* token was not there (a draw that was there changes nothing).
AuthMap(p) ==
    /\ procs[p].pc = "a_map"
    /\ LET l == procs[p]
           r == CASE l.op.kind = "valid" -> Load(tokens, l.op.key)
                  [] l.op.kind = "deltoken" -> LoadAndDelete(tokens, l.op.key)
       IN  IF l.op.kind = "addtoken"
           THEN \E token \in TokenDraws :
                   LET s == LoadOrStore(tokens, token,
                                        [name |-> l.op.key, expiry |-> clock + Hour])
                   IN  /\ ~s.ok
                       /\ tokens' = s.ts
                       /\ procs' = [procs EXCEPT ![p] =
                              [l EXCEPT !.pc = "a_ret", !.tmp = token, !.tokOk = TRUE]]
           ELSE /\ tokens' = r.ts
                /\ procs' = [procs EXCEPT ![p] =
                       [l EXCEPT !.pc = "a_ret", !.tok = r.data, !.tokOk = r.ok]]
    /\ UNCHANGED <<nodes, clock, cancelled, prog, hist, nCheck, docs, subs, dbIndex>>
    /\ obs' = Observe(nodes', procs', obs)

\* the call returns. IsTokenValid: ("", false) if the token was not there or
\* time.Now() is after its expiry, else its name; DeleteToken: whether the token
\* was there and time.Now() is not after its expiry; AddToken: the token.
AuthReturn(p) ==
    /\ procs[p].pc = "a_ret"
    /\ LET l == procs[p]
           good == l.tokOk /\ ~(clock > l.tok.expiry)
       IN  CASE l.op.kind = "valid" ->
                  Return(p, Result(l.op, IF good THEN l.tok.name ELSE -1, good, FALSE, FALSE))
             [] l.op.kind = "deltoken" ->
                  Return(p, Result(l.op, 0, good, FALSE, FALSE))
             [] l.op.kind = "addtoken" ->
                  Return(p, Result(l.op, l.tmp, TRUE, FALSE, FALSE))
    /\ UNCHANGED <<nodes, clock, cancelled, prog, nCheck, docs, subs, tokens, dbIndex>>
    /\ obs' = Observe(nodes', procs', obs)

\* checkAuthorization that lets every request through as user 0
checkAuthorizationAlways(header, now) == [name |-> 0, ok |-> TRUE]

\* checkAuthorization: no header, or one that does not begin with "Bearer ", is
\* refused; else the token after it decides
checkAuthorization(header, now) ==
    IF header = NoHeader THEN [name |-> -1, ok |-> FALSE]
    ELSE IF header.prefix # "Bearer " THEN [name |-> -1, ok |-> FALSE]
    ELSE IsTokenValid(header.rest, now)

\* len(splitPaths), and whether the path ends with a blank name
PathLen(req) == Len(req.pre) + 1 + (IF req.tail THEN 1 ELSE 0)
Blank(req) == req.tail \/ req.key = MinVal

\* which names of the path are there: the names before the key are there or not
\* from the start, the key is there if it is found in the index, and "" after the
\* key never is
Exists(req, found) == req.pre \o <<found>> \o (IF req.tail THEN <<FALSE>> ELSE <<>>)

\* the index of the first name of the path that is not there, 0-based; the number
\* of names if all are there
FirstMissing(ex) ==
    IF \E i \in 1..Len(ex) : ~ex[i]
    THEN (CHOOSE i \in 1..Len(ex) : ~ex[i] /\ \A j \in 1..(i - 1) : ex[j]) - 1
    ELSE Len(ex)

\* a lastRealItem that takes a path with a name that is not there for a bad path
lastRealItemStrict(ex, blankOnly) ==
    LET len == Len(ex)
    IN  IF (len > 1 /\ len % 2 = 1) \/ blankOnly \/ FirstMissing(ex) < len
        THEN [err |-> TRUE, endsOnCol |-> FALSE, lgi |-> -1]
        ELSE [err |-> FALSE, endsOnCol |-> ((len - 1) % 2 = 0), lgi |-> len - 1]

\* lastRealItem: (endsOnCol, lastGoodIndex, err). An odd number of names (but one)
\* is a bad path, and so is a path of one blank name. The walk looks for a
\* collection at the even indices and for a document at the odd ones, and stops at
\* the first name that is not found.
lastRealItem(ex, blankOnly) ==
    LET len == Len(ex)
        j == FirstMissing(ex)
    IN  IF len > 1 /\ len % 2 = 1 THEN [err |-> TRUE, endsOnCol |-> FALSE, lgi |-> -1]
        ELSE IF blankOnly THEN [err |-> TRUE, endsOnCol |-> FALSE, lgi |-> -1]
        ELSE IF j = len
        THEN [err |-> FALSE, endsOnCol |-> ((len - 1) % 2 = 0), lgi |-> len - 1]
        ELSE [err |-> FALSE, endsOnCol |-> (j % 2 = 1), lgi |-> j - 1]

\* what a handler does once it knows where the path ends: it responds with a
\* status, or goes on with act
Answer(status) == [act |-> "respond", status |-> status]
Do(act, status) == [act |-> act, status |-> status]

\* get, after lastRealItem
GetRoute(req, lri) ==
    LET len == PathLen(req)
    IN  IF req.mode \notin {"", "subscribe"} THEN Answer(StatusBadRequest)
        ELSE IF lri.err THEN Answer(StatusBadRequest)
        ELSE IF lri.endsOnCol
        THEN IF lri.lgi = len - 1 THEN Answer(StatusBadRequest)
             ELSE IF lri.lgi = len - 2 /\ Blank(req)
             THEN IF req.mode = "subscribe" THEN Do("subcol", StatusOK)
                  ELSE Do("getcol", StatusOK)
             ELSE Answer(StatusNotFound)
        ELSE IF lri.lgi # len - 1 THEN Answer(StatusNotFound)
             ELSE IF req.mode = "subscribe" THEN Do("subdoc", StatusOK)
             ELSE Do("getdoc", StatusOK)

\* delete, after lastRealItem
DeleteRoute(req, lri) ==
    LET len == PathLen(req)
    IN  IF lri.err THEN Answer(StatusBadRequest)
        ELSE IF lri.endsOnCol
        THEN IF len = 1 THEN Do("deldb", StatusNoContent)
             ELSE IF lri.lgi = len - 2 /\ Blank(req) /\ len > 2
             THEN Do("delcol", StatusNoContent)
             ELSE Answer(StatusNotFound)
        ELSE IF lri.lgi # len - 1 THEN Answer(StatusNotFound)
             ELSE Do("deldoc", StatusNoContent)

\* post, after lastRealItem; the body has been validated before
PostRoute(req, lri) ==
    LET len == PathLen(req)
    IN  IF ~Validate(req.body) THEN Answer(StatusBadRequest)
        ELSE IF lri.err THEN Answer(StatusBadRequest)
        ELSE IF ~(len % 2 = 0 /\ Blank(req)) THEN Answer(StatusBadRequest)
        ELSE IF lri.endsOnCol
        THEN IF lri.lgi = len - 2 /\ Blank(req) THEN Do("post", StatusCreated)
             ELSE IF lri.lgi = len - 2 THEN Answer(StatusBadRequest)
             ELSE Answer(StatusNotFound)
        ELSE IF lri.lgi = len - 1 THEN Answer(StatusBadRequest)
             ELSE Answer(StatusNotFound)

\* put, after lastRealItem; "/db/" has been refused before
PutRoute(req, lri) ==
    LET len == PathLen(req)
        mode == IF req.mode \notin {"", "overwrite", "nooverwrite"}
                THEN Answer(StatusBadRequest)
                ELSE Do("none", 0)
        Body(then) == IF mode.act = "respond" THEN mode
                      ELSE IF ~Validate(req.body) THEN Answer(StatusBadRequest)
                      ELSE then
    IN  IF len = 2 /\ Blank(req) THEN Answer(StatusBadRequest)
        ELSE IF lri.err THEN Answer(StatusBadRequest)
        ELSE IF mode.act = "respond" THEN mode
        ELSE IF lri.endsOnCol
        THEN IF lri.lgi = len - 1 THEN Answer(StatusBadRequest)
             ELSE IF lri.lgi < len - 2 THEN Answer(StatusNotFound)
             ELSE IF Blank(req) THEN Answer(StatusBadRequest)
             ELSE Body(Do("putdoc", StatusCreated))
        ELSE IF lri.lgi = len - 1
             THEN IF mode.act = "respond" THEN mode
                  ELSE IF req.mode = "nooverwrite" THEN Answer(StatusPreconditionFailed)
                  ELSE Body(Do("putdoc", StatusOK))
             ELSE IF lri.lgi = -1 /\ len = 1 THEN Do("putdb", StatusCreated)
             ELSE IF lri.lgi = -1 THEN Answer(StatusNotFound)
             ELSE IF lri.lgi < len - 3 THEN Answer(StatusNotFound)
             ELSE IF lri.lgi = len - 3 /\ ~Blank(req) THEN Answer(StatusNotFound)
             ELSE Do("putcol", StatusCreated)

\* patch, after lastRealItem
PatchRoute(req, lri) ==
    LET len == PathLen(req)
    IN  IF lri.err THEN Answer(StatusBadRequest)
        ELSE IF ~(len % 2 = 0 /\ ~Blank(req)) THEN Answer(StatusBadRequest)
        ELSE IF lri.endsOnCol
        THEN IF lri.lgi = len - 1 THEN Answer(StatusBadRequest)
             ELSE Answer(StatusNotFound)
        ELSE IF lri.lgi = len - 1 THEN Do("patch", StatusOK)
             ELSE IF lri.lgi = -1 THEN Answer(StatusNotFound)
             ELSE IF lri.lgi < len - 3 THEN Answer(StatusNotFound)
             ELSE IF lri.lgi = len - 3 /\ ~Blank(req) THEN Answer(StatusNotFound)
             ELSE Answer(StatusCreated)

\* the mux: the handler of the request's method
Route(req, found) ==
    LET lri == lastRealItem(Exists(req, found), PathLen(req) = 1 /\ Blank(req))
    IN  CASE req.method = "GET" -> GetRoute(req, lri)
          [] req.method = "DELETE" -> DeleteRoute(req, lri)
          [] req.method = "POST" -> PostRoute(req, lri)
          [] req.method = "PUT" -> PutRoute(req, lri)
          [] req.method = "PATCH" -> PatchRoute(req, lri)

\* lastRealItem looks the key up in the index: the path is no bad path and every
\* name before the key is there
ReachesLast(req) ==
    /\ ~lastRealItem(Exists(req, FALSE), PathLen(req) = 1 /\ Blank(req)).err
    /\ FirstMissing(req.pre) = Len(req.pre)

\* the path as lastRealItem finds it: d.dbIndex.Find of the first name fails when
\* the database is not in dbIndex, and then no name of the path is found
Seen(req, dbs) ==
    IF Database \in dbs THEN req ELSE [req EXCEPT !.pre = [i \in DOMAIN req.pre |-> FALSE]]

\* a request arrives: its handler checks the Authorization header, then
\* lastRealItem walks the path; it looks the last name up in the index if it gets
\* that far, else the handler responds at once
Serve(p) ==
    /\ procs[p].pc = "idle"
    /\ prog[p] # <<>>
    /\ Head(prog[p]).kind # "dropdb"
    /\ prog' = [prog EXCEPT ![p] = Tail(prog[p])]
    /\ UNCHANGED <<nodes, clock, cancelled, nCheck, docs, subs>>
    /\ LET req == Seen(Head(prog[p]), dbIndex)
           a == checkAuthorization(req.auth, clock)
           Respond(status) ==
               Return(p, [Result(req, 0, FALSE, FALSE, FALSE) EXCEPT !.status = status])
       IN  IF ~a.ok THEN Respond(StatusUnauthorized)
           ELSE IF ~ReachesLast(req) THEN Respond(Route(req, FALSE).status)
           ELSE /\ procs' = [procs EXCEPT ![p] =
                       StartFind([Idle EXCEPT !.op = LookupOp(req.key),
                                              !.req = [req EXCEPT !.user = a.name],
                                              !.retStatus = StatusCreated], nodes)]
                /\ UNCHANGED hist
    /\ Track

\* DELETE of the database: lastRealItem finds it in dbIndex and the handler calls
\* d.dbIndex.Remove and answers 204; a database that is not there is answered 404
DeleteDatabase(p) ==
    /\ procs[p].pc = "idle"
    /\ prog[p] # <<>>
    /\ Head(prog[p]).kind = "dropdb"
    /\ prog' = [prog EXCEPT ![p] = Tail(prog[p])]
    /\ LET req == Head(prog[p])
           a == checkAuthorization(req.auth, clock)
           status == IF ~a.ok THEN StatusUnauthorized
                     ELSE IF Database \in dbIndex THEN StatusNoContent
                     ELSE StatusNotFound
       IN  /\ dbIndex' = IF a.ok THEN dbIndex \ {Database} ELSE dbIndex
           /\ Return(p, [Result(req, 0, FALSE, FALSE, FALSE) EXCEPT !.status = status])
    /\ UNCHANGED <<nodes, clock, cancelled, nCheck, docs, subs, tokens>>
    /\ obs' = Observe(nodes', procs', obs)

\* the handler has lastRealItem's answer: it responds at once, or calls Upsert
\* (PutDocument, dbIndex.CallUpsert) with its check, Remove (DeleteDocument,
\* dbIndex.Remove), Query with Document.Copy (CollectionJsonMake), or reads the
\* document found (DocumentJsonMake)
Resolved(p) ==
    /\ procs[p].pc = "h_resolved"
    /\ UNCHANGED <<nodes, clock, cancelled, prog, nCheck, docs, subs>>
    /\ LET l == procs[p]
           req == l.req
           r == FindResult(l, nodes)
           to == Route(req, r.ok)
           Respond(status) ==
               Return(p, [Result(l.op, r.val, r.ok, FALSE, FALSE) EXCEPT !.status = status])
           Upsert(chk) ==
               /\ procs' = [procs EXCEPT ![p] =
                      StartFind([l EXCEPT !.op = UpsertOp(req.key, chk, req.top),
                                          !.retStatus = to.status, !.act = to.act],
                                nodes)]
               /\ UNCHANGED hist
           Remove ==
               /\ procs' = [procs EXCEPT ![p] =
                      StartFind([l EXCEPT !.op = RemoveOp(req.key),
                                          !.retStatus = to.status, !.act = to.act],
                                nodes)]
               /\ UNCHANGED hist
       IN  CASE to.act = "respond" -> Respond(to.status)
             [] to.act = "putdoc" -> Upsert("put")
             [] to.act = "patch" -> Upsert("patch")
             [] to.act = "putdb" -> Upsert("create")
             [] to.act \in {"deldoc", "deldb", "delcol"} -> Remove
             [] to.act = "post" ->
                  /\ procs' = [procs EXCEPT ![p] =
                         [Idle EXCEPT !.pc = "p_name", !.op = l.op, !.req = req,
                                      !.retStatus = to.status, !.act = to.act]]
                  /\ UNCHANGED hist
             [] to.act = "getcol" ->
                  /\ procs' = [procs EXCEPT ![p] =
                         [Idle EXCEPT !.pc = "q_cond", !.req = req,
                                      !.op = [QueryOp(req.top, req.hi, req.ctx)
                                                 EXCEPT !.chk = "copy"],
                                      !.retStatus = to.status, !.act = to.act]]
                  /\ UNCHANGED hist
             [] to.act = "getdoc" ->
                  /\ procs' = [procs EXCEPT ![p] =
                         [Idle EXCEPT !.pc = "g_data", !.op = l.op, !.req = req,
                                      !.tmp = r.val, !.retStatus = to.status,
                                      !.act = to.act]]
                  /\ UNCHANGED hist
    /\ Track

\* post's loop: the name of the new document is the wall clock's milliseconds,
\* which is any name the collection can hold, taken or not; PutDocument is called
\* with it and post's check. The model follows the loop for MaxTries names (i
\* counts them).
PostName(p) ==
    /\ procs[p].pc = "p_name"
    /\ procs[p].i < MaxTries
    /\ \E docName \in Keys :
           procs' = [procs EXCEPT ![p] =
               StartFind([procs[p] EXCEPT !.op = UpsertOp(docName, "post",
                                                          procs[p].req.top),
                                          !.i = @ + 1], nodes)]
    /\ UNCHANGED <<nodes, clock, cancelled, prog, hist, nCheck, docs, subs>>
    /\ Track

\* DocumentJsonMake reads d.data, then d.metadata, and holds no lock
GetData(p) ==
    /\ procs[p].pc = "g_data"
    /\ procs' = [procs EXCEPT ![p].pc = "g_meta",
                              ![p].cur = [NoDoc EXCEPT !.data = docs[procs[p].tmp].data]]
    /\ UNCHANGED <<nodes, clock, cancelled, prog, hist, nCheck, docs, subs>>
    /\ Track

GetMeta(p) ==
    /\ procs[p].pc = "g_meta"
    /\ LET l == procs[p]
           d == docs[l.tmp]
       IN  Return(p, [Result(l.op, l.tmp, TRUE, FALSE, FALSE)
                         EXCEPT !.status = l.retStatus,
                                !.docIs = [d EXCEPT !.data = l.cur.data]])
    /\ UNCHANGED <<nodes, clock, cancelled, prog, nCheck, docs, subs>>
    /\ Track

\* a delete that tells no subscriber
DeleteSilent(p) ==
    /\ procs[p].pc = "d_removed"
    /\ procs' = [procs EXCEPT ![p].pc = "d_notify"]
    /\ UNCHANGED <<nodes, clock, cancelled, prog, hist, nCheck, docs, subs>>
    /\ Track

\* delete, the document or the collection removed: the frame gets its id from
\* time.Now() and notifySubscriptions copies the subscribers of the collection; the
\* message for a collection has the document name ""
DeleteNotify(p) ==
    /\ procs[p].pc = "d_removed"
    /\ clock' = Now
    /\ LET l == procs[p]
       IN  \E s \in (IF AllSubscribers = {} THEN {0} ELSE AllSubscribers) :
               procs' = [procs EXCEPT ![p] =
                   [l EXCEPT !.pc = "d_notify", !.notified = TRUE,
                             !.pending = AllSubscribers, !.target = s,
                             !.msg = DeleteMsg(IF l.act = "delcol" THEN MinVal
                                               ELSE l.req.key, Now,
                                               <<p, Len(hist[p]) + 1>>, l.i)]]
    /\ UNCHANGED <<nodes, cancelled, prog, hist, nCheck, docs, subs>>
    /\ Track

\* delete, every subscriber served: 204
DeleteDone(p) ==
    /\ procs[p].pc = "d_notify"
    /\ procs[p].pending = {}
    /\ LET l == procs[p]
       IN  Return(p, [Result(l.op, 0, TRUE, FALSE, FALSE) EXCEPT !.status = l.retStatus])
    /\ UNCHANGED <<nodes, clock, cancelled, prog, nCheck, docs, subs>>
    /\ Track

\* a PATCH that stores what its operations made of the document, failed or not
CommitsAlways(r) == TRUE

\* if !patchFailed: the PATCH validates and stores the patched document
Commits(r) == ~r.patchFailed

\* a check of post that takes every name as free
NameTakenNever(exists) == FALSE

\* the check of POST: "document already exists" if the name exists
NameTaken(exists) == exists

\* a check for a new database that takes every name as new
AlreadyExistsNever(exists) == FALSE

\* the check of PUT for a database: "database already exists" if the name exists
AlreadyExists(exists) == exists

\* the body of a handler's check, up to notifySubscriptions' copy of the subscribers.
\* It runs inside Upsert: with found.mtx held when the key exists, else with the
\* predecessors locked.
CheckBody(p) ==
    /\ procs[p].pc \in {"u_checked", "u_new"}
    /\ HandlerCheck(procs[p].op.chk)
    /\ ~procs[p].applied
    /\ UNCHANGED <<nodes, cancelled, prog, nCheck, subs>>
    /\ LET l == procs[p]
           req == l.req
           exists == l.pc = "u_checked"
           currValue == l.tmp
           n == NewNodeId(p)
           Quiet(l2) ==
               /\ procs' = [procs EXCEPT ![p] = [l2 EXCEPT !.applied = TRUE]]
               /\ UNCHANGED hist
           Notify(l2, doc) ==
               /\ \E s \in (IF AllSubscribers = {} THEN {0} ELSE AllSubscribers) :
                      procs' = [procs EXCEPT ![p] =
                          [l2 EXCEPT !.applied = TRUE, !.notified = TRUE,
                                     !.pending = AllSubscribers, !.target = s,
                                     !.msg = UpdateMsg(l.op.key, doc, Now,
                                                       <<p, Len(hist[p]) + 1>>)]]
               /\ UNCHANGED hist
           Modified(data) ==
               ReplaceData(ModifyMetadata(docs[currValue], req.user, Now), data)
           Modify(data) ==
               /\ docs' = [docs EXCEPT ![currValue] = Modified(data)]
               /\ clock' = Now
       IN  CASE l.op.chk = "put" ->
                  IF exists
                  THEN /\ Modify(req.body)
                       /\ Notify([l EXCEPT !.retStatus = StatusOK], Modified(req.body))
                  ELSE /\ docs' = [docs EXCEPT ![n] =
                              NewDocument(req.key, req.body, req.user, Now)]
                       /\ clock' = Now
                       /\ Notify(l, NewDocument(req.key, req.body, req.user, Now))
             [] l.op.chk = "patch" ->
                  IF ~exists
                  THEN Quiet([l EXCEPT !.chkErr = TRUE]) /\ UNCHANGED <<docs, clock>>
                  ELSE LET r == IF req.isList
                                THEN PatchLoop(l.cur.data, req.ops, l.retStatus)
                                ELSE [docJson |-> l.cur.data, patchFailed |-> TRUE,
                                      retStatus |-> StatusBadRequest, panic |-> FALSE]
                       IN  IF r.panic
                           THEN /\ UNCHANGED <<docs, clock>>
                                /\ Return(p, [Result(l.op, 0, FALSE, FALSE, TRUE)
                                                 EXCEPT !.panicked = TRUE])
                           ELSE IF ~Commits(r)
                           THEN /\ Quiet([l EXCEPT !.retStatus = r.retStatus,
                                                   !.patchFailed = r.patchFailed])
                                /\ UNCHANGED <<docs, clock>>
                           ELSE IF ~Validate(r.docJson)
                           THEN Quiet([l EXCEPT !.chkErr = TRUE]) /\ UNCHANGED <<docs, clock>>
                           ELSE Modify(r.docJson) /\ Notify(l, Modified(r.docJson))
             [] l.op.chk = "post" ->
                  IF NameTaken(exists)
                  THEN Quiet([l EXCEPT !.chkErr = TRUE]) /\ UNCHANGED <<docs, clock>>
                  ELSE /\ docs' = [docs EXCEPT ![n] =
                              NewDocument(l.op.key, req.body, req.user, Now)]
                       /\ clock' = Now
                       /\ Notify(l, NewDocument(l.op.key, req.body, req.user, Now))
             [] OTHER ->
                  IF AlreadyExists(exists)
                  THEN Quiet([l EXCEPT !.chkErr = TRUE]) /\ UNCHANGED <<docs, clock>>
                  ELSE /\ docs' = [docs EXCEPT ![n] = NewCollection(req.key)]
                       /\ Quiet(l)
                       /\ UNCHANGED clock
    /\ Track

\* notifySubscriptions' select for the subscriber its loop is at: the subscriber's
\* done channel is closed, or the subscriber is at its select and takes the message
\* (a subscriber whose context is done may take it too: select picks any ready case).
\* The loop then goes to another subscriber of its copy, in no fixed order.
NotifySend(p) ==
    /\ \/ procs[p].pc \in {"u_checked", "u_new"} /\ procs[p].applied
       \/ procs[p].pc = "d_notify"
    /\ procs[p].pending # {}
    /\ LET l == procs[p]
           s == l.target
           rest == l.pending \ {s}
       IN  /\ subs[s].closed \/ subs[s].st = "select"
           /\ \/ subs[s].closed /\ UNCHANGED subs
              \/ subs[s].st = "select" /\ subs' = [subs EXCEPT ![s] = Receive(subs[s], l.msg)]
           /\ \E t \in (IF rest = {} THEN {0} ELSE rest) :
                  procs' = [procs EXCEPT ![p].pending = rest, ![p].target = t]
    /\ UNCHANGED <<nodes, clock, cancelled, prog, hist, nCheck, docs>>
    /\ Track

(* ------------------------- specifications ------------------------------ *)
\* programs of at most n calls over a set of calls
RECURSIVE ProgsUpTo(_, _)
ProgsUpTo(ops, n) ==
    IF n = 0 THEN {<<>>}
    ELSE ProgsUpTo(ops, n - 1) \cup
         {<<o>> \o s : o \in ops, s \in {t \in ProgsUpTo(ops, n - 1) : Len(t) = n - 1}}

\* top levels of the entries present at the start: key k has level k % 2
InitLevel == [k \in Keys |-> k % (MaxDraw + 1)]

\* no goroutine has made a call
InitLocals ==
    /\ dbIndex = {Database}
    /\ clock = NumKeys
    /\ cancelled = FALSE
    /\ procs = [p \in Procs |-> Idle]
    /\ hist = [p \in Procs |-> <<>>]
    /\ nCheck = [k \in AllKeys |-> [f |-> 0, t |-> 0]]
    /\ obs = NoObs

InitProcs ==
    /\ InitLocals
    /\ tokens = Tokens

\* an index whose values are no documents, with no subscriber
InitCommon ==
    /\ InitProcs
    /\ docs = [n \in NodeIds |-> NoDoc]
    /\ subs = [s \in Subs |-> NoSub]

\* Goroutines run the same code, so of the assignments of programs to goroutines
\* that differ only in who runs which program one is kept: programs in rank order.
KindRank(k) == CASE k = "upsert" -> 1 [] k = "remove" -> 2 [] k = "find" -> 3 [] OTHER -> 4
ChkRank(c) == CASE c = "add" -> 1 [] c = "ret" -> 2 [] c = "err" -> 3 [] OTHER -> 0
OpRank(o) == ((KindRank(o.kind) * (MaxVal + 1) + o.key) * 4 + ChkRank(o.chk)) * Height + o.top
RankBase == (5 * (MaxVal + 1) * 4 + 4) * Height

RECURSIVE ProgRank(_)
ProgRank(s) == IF s = <<>> THEN 0 ELSE OpRank(Head(s)) + RankBase * ProgRank(Tail(s))

Ranked(pg) == \A p \in Procs : p + 1 \in Procs => ProgRank(pg[p]) <= ProgRank(pg[p + 1])

\* Upserts only: every goroutine makes one Upsert with a check that succeeds
UpsertOps == {UpsertOp(k, c, t) : k \in Keys, c \in {"add", "ret"}, t \in RandomLevels}

InitU ==
    /\ InitCommon
    /\ \E ks \in SUBSET Keys : nodes = InitIndex(ks, InitLevel, PtrAdd)
    /\ prog \in {pg \in [Procs -> {<<o>> : o \in UpsertOps}] : Ranked(pg)}

NextU ==
    \E p \in Procs :
        \/ Call(p)
        \/ FindStep(p)
        \/ UpsertFound(p)
        \/ UpsertSpin(p)
        \/ UpsertLockFound(p)
        \/ UpsertCheckCall(p)
        \/ UpsertCheckReturn(p)
        \/ UpsertLockPred(p)
        \/ UpsertNew(p)
        \/ UpsertLink(p)
        \/ UpsertFinish(p)

SpecU == InitU /\ [][NextU]_vars

\* Upsert, Remove and Find together: every goroutine makes one call
IndexOps ==
    {UpsertOp(k, "add", t) : k \in Keys, t \in RandomLevels}
        \cup {RemoveOp(k) : k \in Keys} \cup {FindOp(k) : k \in AllKeys}

InitUR ==
    /\ InitCommon
    /\ \E ks \in SUBSET Keys : nodes = InitIndex(ks, InitLevel, PtrAdd)
    /\ prog \in {pg \in [Procs -> {<<o>> : o \in IndexOps}] : Ranked(pg)}

NextUR ==
    \E p \in Procs :
        \/ Call(p)
        \/ FindStep(p)
        \/ FindReturn(p)
        \/ UpsertFound(p)
        \/ UpsertSpin(p)
        \/ UpsertLockFound(p)
        \/ UpsertCheckCall(p)
        \/ UpsertCheckReturn(p)
        \/ UpsertLockPred(p)
        \/ UpsertNew(p)
        \/ UpsertLink(p)
        \/ UpsertFinish(p)
        \/ RemoveFirst(p)
        \/ RemoveLockVictim(p)
        \/ RemoveLockPred(p)
        \/ RemoveUnlink(p)

SpecUR == InitUR /\ [][NextUR]_vars

\* One goroutine alone: up to MaxOps calls one after the other, with every kind of
\* check; the other goroutines make no call.
SeqOps ==
    {UpsertOp(k, c, t) : k \in Keys, c \in {"add", "ret", "err"}, t \in RandomLevels}
        \cup {RemoveOp(k) : k \in Keys} \cup {FindOp(k) : k \in AllKeys}

InitSeq ==
    /\ InitCommon
    /\ \E ks \in SUBSET Keys : nodes = InitIndex(ks, InitLevel, PtrAdd)
    /\ \E s \in ProgsUpTo(SeqOps, MaxOps) :
            prog = [p \in Procs |-> IF p = 1 THEN s ELSE <<>>]

SpecSeq == InitSeq /\ [][NextUR]_vars

\* A Query by goroutine 1 while the others write: each of them makes at most one
\* Upsert (adding in place, the new node at level 0) or Remove. The Query is over
\* the whole index, with each kind of context, or from the largest user key on.
QueryOps ==
    {QueryOp(MinVal, MaxVal, c) : c \in {"nil", "cancel", "deadline"}}
        \cup {QueryOp(NumKeys, MaxVal, "nil")}

WriteOps ==
    {UpsertOp(k, "add", 0) : k \in Keys} \cup {RemoveOp(k) : k \in Keys}

InitQ ==
    /\ InitCommon
    /\ \E ks \in SUBSET Keys : nodes = InitIndex(ks, InitLevel, PtrAdd)
    /\ prog \in {pg \in [Procs -> ProgsUpTo(WriteOps \cup QueryOps, 1)] :
                    /\ pg[1] \in {<<o>> : o \in QueryOps}
                    /\ \A p \in Procs \ {1} : pg[p] \in ProgsUpTo(WriteOps, 1)
                    /\ \A p \in Procs \ {1} :
                           p + 1 \in Procs => ProgRank(pg[p]) <= ProgRank(pg[p + 1])}

NextQ ==
    \/ Cancel
    \/ Tick
    \/ \E p \in Procs :
        \/ Call(p)
        \/ QueryCond(p)
        \/ QueryFirstScan(p)
        \/ QuerySecondScan(p)
        \/ FindStep(p)
        \/ UpsertFound(p)
        \/ UpsertSpin(p)
        \/ UpsertLockFound(p)
        \/ UpsertCheckCall(p)
        \/ UpsertCheckReturn(p)
        \/ UpsertLockPred(p)
        \/ UpsertNew(p)
        \/ UpsertLink(p)
        \/ UpsertFinish(p)
        \/ RemoveFirst(p)
        \/ RemoveLockVictim(p)
        \/ RemoveLockPred(p)
        \/ RemoveUnlink(p)

SpecQ == InitQ /\ [][NextQ]_vars

(* PUTs of documents: every goroutine sends one PUT, with or without
   mode=nooverwrite, its own name as the user and its own body; the first
   goroutine may send a body the schema rejects. *)
InitUser == 0
Body(n) == Obj({Member("a", Num(n))})

\* an index of documents: the value of a node points to its document
InitDocIndex(ks) ==
    [n \in NodeIds |-> IF n \in {InitNodeId(k) : k \in ks}
                       THEN [InitIndex(ks, InitLevel, 0)[n] EXCEPT !.value = n]
                       ELSE InitIndex(ks, InitLevel, 0)[n]]

InitDocs(ks, data) ==
    [n \in NodeIds |-> IF \E k \in ks : n = InitNodeId(k)
                       THEN NewDocument(CHOOSE k \in ks : n = InitNodeId(k), data,
                                        InitUser, CHOOSE k \in ks : n = InitNodeId(k))
                       ELSE NoDoc]

PutReqs(p) ==
    {PutReq(k, mode, p, body, InitLevel[k]) :
        k \in Keys, mode \in {"", "nooverwrite"},
        body \in {Body(p)} \cup (IF p = 1 THEN {Num(0)} ELSE {})}

InitPut ==
    /\ InitProcs
    /\ subs = [s \in Subs |-> NoSub]
    /\ \E ks \in SUBSET Keys : nodes = InitDocIndex(ks) /\ docs = InitDocs(ks, Body(0))
    /\ prog \in [Procs -> UNION {{<<r>> : r \in PutReqs(p)} : p \in Procs}]
    /\ \A p \in Procs : Head(prog[p]) \in PutReqs(p)

NextPut ==
    \E p \in Procs :
        \/ Serve(p)
        \/ FindStep(p)
        \/ Resolved(p)
        \/ UpsertFound(p)
        \/ UpsertSpin(p)
        \/ UpsertLockFound(p)
        \/ UpsertCheckCall(p)
        \/ CheckBody(p)
        \/ UpsertCheckReturn(p)
        \/ UpsertLockPred(p)
        \/ UpsertNew(p)
        \/ UpsertLink(p)
        \/ UpsertFinish(p)

SpecPut == InitPut /\ [][NextPut]_vars

(* PUTs of databases: the index is the index of databases, the value of a node
   points to the collection; every goroutine sends one PUT of a database. The
   data of a collection present at the start stands for the documents it holds. *)
PutDbReqs(p) == {PutDbReq(k, p, InitLevel[k]) : k \in Keys}

InitDb ==
    /\ InitProcs
    /\ subs = [s \in Subs |-> NoSub]
    /\ \E ks \in SUBSET Keys : nodes = InitDocIndex(ks) /\ docs = InitDocs(ks, Body(0))
    /\ prog \in [Procs -> UNION {{<<r>> : r \in PutDbReqs(p)} : p \in Procs}]
    /\ \A p \in Procs : Head(prog[p]) \in PutDbReqs(p)

SpecDb == InitDb /\ [][NextPut]_vars

(* PATCHes and PUTs of documents: document 1 exists and holds an object with a
   number under "a" and an array under "arr"; document 2 does not. The first
   goroutine sends a PATCH of document 1 with one or two operations of every
   sort, the others a PATCH that adds a key of their own or a PUT. *)
Doc0 == Obj({Member("a", Num(0)), Member("arr", Arr(<<Num(1)>>))})

Path(segs) == <<"">> \o segs

PatchOps ==
    {PatchOp("ObjectAdd", Path(<<"b">>), Num(1)),
     PatchOp("ObjectAdd", Path(<<"a">>), Num(9)),
     PatchOp("ObjectAdd", Path(<<"a~1b">>), Num(1)),
     PatchOp("ObjectAdd", <<"b">>, Num(1)),
     PatchOp("ObjectAdd", EmptyPath, Num(1)),
     PatchOp("ArrayAdd", Path(<<"arr">>), Num(2)),
     PatchOp("ArrayRemove", Path(<<"arr">>), Num(1)),
     PatchOp("ArrayAdd", Path(<<"arr", "0">>), Num(2)),
     PatchOp("ArrayAdd", Path(<<"arr", "1">>), Num(2)),
     PatchOp("ArrayAdd", Path(<<"arr", "x">>), Num(2)),
     PatchOp("ArrayAdd", Path(<<"arr", "-1">>), Num(2)),
     PatchOp("ArrayAdd", Path(<<"zz">>), Num(2)),
     PatchOp("Replace", Path(<<"a">>), Num(2)),
     PatchItem({"op", "path"}, {"op", "path"}, "ObjectAdd", Path(<<"b">>), Null)}

SecondOps ==
    {PatchOp("ArrayAdd", Path(<<"arr">>), Num(2)),
     PatchOp("ArrayAdd", Path(<<"arr", "1">>), Num(2)),
     PatchOp("ArrayAdd", Path(<<"arr", "-1">>), Num(2)),
     PatchItem({"op", "path"}, {"op", "path"}, "ObjectAdd", Path(<<"b">>), Null)}

OwnKey(p) == CASE p = 1 -> "b" [] p = 2 -> "c" [] OTHER -> "d"
AddOwnKey(p) == PatchOp("ObjectAdd", Path(<<OwnKey(p)>>), Num(p))

PatchReqs(p) ==
    IF p = 1
    THEN {PatchReq(1, p, TRUE, <<o>>, 0) : o \in PatchOps}
         \cup {PatchReq(1, p, TRUE, <<AddOwnKey(p), o>>, 0) : o \in SecondOps}
         \cup {PatchReq(1, p, FALSE, <<>>, 0)}
    ELSE {PatchReq(1, p, TRUE, <<AddOwnKey(p)>>, 0),
          PutReq(p - 1, "", p, Body(p), InitLevel[p - 1])}
         \cup (IF p = 2 THEN {} ELSE {PatchReq(2, p, TRUE, <<AddOwnKey(p)>>, 0)})

InitPatch ==
    /\ InitProcs
    /\ subs = [s \in Subs |-> NoSub]
    /\ nodes = InitDocIndex({1})
    /\ docs = InitDocs({1}, Doc0)
    /\ prog \in [Procs -> UNION {{<<r>> : r \in PatchReqs(p)} : p \in Procs}]
    /\ \A p \in Procs : Head(prog[p]) \in PatchReqs(p)

SpecPatch == InitPatch /\ [][NextPut]_vars

(* PUTs of documents of a collection with subscribers: document 1 exists,
   document 2 does not; every goroutine but the last sends one PUT, the first of
   document 1, the second of document 2 and so on; the first
   subscriber listens to document 1 or to the whole collection, the others to
   document 2 or to a range of the collection. *)
SubReqs(p) == {PutReq(k, "", p, Body(p), InitLevel[k]) : k \in {((p - 1) % NumKeys) + 1}}

InitSub ==
    /\ InitProcs
    /\ nodes = InitDocIndex({1})
    /\ docs = InitDocs({1}, Body(0))
    /\ subs \in [Subs -> {DocSubscriber(k) : k \in Keys}
                         \cup {CollectionSubscriber(MinVal, MaxVal),
                               CollectionSubscriber(NumKeys, MaxVal)}]
    /\ subs[1] \in {DocSubscriber(1), CollectionSubscriber(MinVal, MaxVal)}
    /\ \A s \in Subs \ {1} :
          subs[s] \in {DocSubscriber(NumKeys), CollectionSubscriber(NumKeys, MaxVal)}
    /\ prog \in [Procs -> {<<>>} \cup UNION {{<<r>> : r \in SubReqs(p)} : p \in Procs}]
    /\ \A p \in Procs : IF p = NumProcs THEN prog[p] = <<>>
                          ELSE prog[p] # <<>> /\ Head(prog[p]) \in SubReqs(p)

NextSub ==
    \/ NextPut
    \/ \E p \in Procs : NotifySend(p)
    \/ \E s \in Subs :
          \/ SubWrite(s)
          \/ SubKeepAlive(s)
          \/ SubCancel(s)
          \/ SubDone(s)
          \/ SubDefer(s)

SpecSub == InitSub /\ [][NextSub]_vars

\* A client subscribes to document 1 while goroutines PUT and DELETE it; the client
\* stays. Goroutine 1 PUTs the document, then DELETEs it.
StreamReqs(p) == {PutReq(1, "", p, Body(p), InitLevel[1]), DeleteReq(1, p)}

InitStream ==
    /\ InitProcs
    /\ nodes = InitDocIndex({1})
    /\ docs = InitDocs({1}, Body(0))
    /\ subs = [s \in Subs |-> IF s = 1 THEN NewDocSubscriber(1) ELSE NoSub]
    /\ prog \in [Procs -> UNION {ProgsUpTo(StreamReqs(p), MaxOps) : p \in Procs}]
    /\ \A p \in Procs :
          /\ prog[p] \in ProgsUpTo(StreamReqs(p), MaxOps)
          /\ p = 1 => Len(prog[p]) = MaxOps /\ prog[p][1].kind = "put"
                              /\ prog[p][MaxOps].kind = "delete"
          /\ p > 1 => Len(prog[p]) <= 1
          /\ p > 2 => prog[p] = <<>>

\* the steps of the handlers of PUT, PATCH, GET and DELETE of a document
NextDoc ==
    \/ NextPut
    \/ \E p \in Procs :
          \/ RemoveFirst(p)
          \/ RemoveLockVictim(p)
          \/ RemoveLockPred(p)
          \/ RemoveUnlink(p)
          \/ DeleteNotify(p)
          \/ DeleteDone(p)
          \/ NotifySend(p)

NextStream ==
    \/ NextDoc
    \/ \E s \in Subs :
          \/ SubStart(s)
          \/ SubInitial(s)
          \/ SubInitialMeta(s)
          \/ SubRegister(s)
          \/ SubWrite(s)
          \/ SubKeepAlive(s)

SpecStream == InitStream /\ [][NextStream]_vars

\* Goroutine 1 DELETEs or PUTs document 1 and then GETs it, goroutine 2 may PUT,
\* GET or DELETE it; the collection has a subscriber to document 1 or to all
\* documents, and subscribers to another document. Their clients stay.
InitGet ==
    /\ InitProcs
    /\ nodes = InitDocIndex({1})
    /\ docs = InitDocs({1}, Body(0))
    /\ subs \in [Subs -> {DocSubscriber(k) : k \in Keys}
                         \cup {CollectionSubscriber(MinVal, MaxVal)}]
    /\ subs[1] \in {DocSubscriber(1), CollectionSubscriber(MinVal, MaxVal)}
    /\ \A s \in Subs \ {1} : subs[s] = DocSubscriber(NumKeys)
    /\ prog \in [Procs -> UNION {ProgsUpTo(StreamReqs(p) \cup {GetReq(1, p)}, MaxOps)
                                    : p \in Procs}]
    /\ \A p \in Procs :
          /\ prog[p] \in ProgsUpTo(StreamReqs(p) \cup {GetReq(1, p)}, MaxOps)
          /\ p = 1 => Len(prog[p]) = MaxOps /\ prog[p][1].kind # "get"
                              /\ prog[p][MaxOps].kind = "get"
          /\ p > 1 => Len(prog[p]) <= 1
          /\ p > 2 => prog[p] = <<>>

NextGet ==
    \/ NextDoc
    \/ \E p \in Procs : GetData(p) \/ GetMeta(p)
    \/ \E s \in Subs : SubWrite(s) \/ SubKeepAlive(s)

SpecGet == InitGet /\ [][NextGet]_vars

\* One goroutine PUTs a document while the clients of the subscribers may go away,
\* with the scheduling the runtime gives: a goroutine that can run does run, a
\* select whose context case is ready takes it at some time, and the client of a
\* subscriber takes the bytes written to it or the write fails.
InitExit ==
    /\ InitProcs
    /\ nodes = InitDocIndex({1})
    /\ docs = InitDocs({1}, Body(0))
    /\ subs \in [Subs -> {DocSubscriber(k) : k \in Keys}
                         \cup {CollectionSubscriber(MinVal, MaxVal)}]
    /\ subs[1] \in {DocSubscriber(1), CollectionSubscriber(MinVal, MaxVal)}
    /\ \A s \in Subs \ {1} : subs[s] = DocSubscriber(NumKeys)
    /\ prog \in [Procs -> {<<>>} \cup UNION {{<<r>> : r \in SubReqs(p)} : p \in Procs}]
    /\ \E p \in Procs : /\ prog[p] # <<>> /\ Head(prog[p]) \in SubReqs(p)
                        /\ \A q \in Procs \ {p} : prog[q] = <<>>

FairExit ==
    /\ \A s \in Subs : WF_vars(SubWrite(s)) /\ SF_vars(SubDone(s)) /\ WF_vars(SubDefer(s))
    /\ \A p \in Procs : WF_vars(NotifySend(p))

SpecExit == InitExit /\ [][NextSub]_vars /\ FairExit

\* Goroutines DELETE database 1, or collection 1 of a document, which has
\* subscribers whose clients stay; a goroutine that can run does run, and the
\* clients take the bytes written to them.
DropReqs(p) == {DeleteDbReq(1, p), DeleteColReq(1, p)}

InitDrop ==
    /\ InitProcs
    /\ nodes = InitDocIndex({1})
    /\ docs = [n \in NodeIds |-> IF n = InitNodeId(1) THEN NewCollection(1) ELSE NoDoc]
    /\ subs \in [Subs -> {DocSubscriber(1), CollectionSubscriber(MinVal, MaxVal)}]
    /\ subs[1] = CollectionSubscriber(MinVal, MaxVal)
    /\ prog \in [Procs -> {<<>>} \cup UNION {{<<r>> : r \in DropReqs(p)} : p \in Procs}]
    /\ \A p \in Procs :
          /\ p = 1 => prog[p] # <<>> /\ Head(prog[p]) \in DropReqs(p)
          /\ p = 2 => prog[p] \in {<<>>, prog[1]}
          /\ p > 2 => prog[p] = <<>>

\* the steps of a goroutine inside Remove and in notifySubscriptions
DropStep(p) ==
    \/ FindStep(p)
    \/ RemoveFirst(p)
    \/ RemoveLockVictim(p)
    \/ RemoveLockPred(p)
    \/ RemoveUnlink(p)
    \/ DeleteNotify(p)
    \/ DeleteDone(p)
    \/ NotifySend(p)

NextDrop ==
    \/ \E p \in Procs : Serve(p) \/ Resolved(p) \/ DropStep(p)
    \/ \E s \in Subs : SubWrite(s) \/ SubKeepAlive(s)

\* weak fairness of Serve and of Resolved, which can be taken whenever the
\* goroutine is where they begin, and of the other steps
FairDrop ==
    /\ \A p \in Procs :
          /\ <>[](procs[p].pc = "idle" /\ prog[p] # <<>>) => []<><<Serve(p)>>_vars
          /\ <>[](procs[p].pc = "h_resolved") => []<><<Resolved(p)>>_vars
          /\ WF_vars(DropStep(p))
    /\ \A s \in Subs : WF_vars(SubWrite(s))

SpecDrop == InitDrop /\ [][NextDrop]_vars /\ FairDrop

\* Goroutine 1 PUTs document 1 and GETs the documents of the database, in one order
\* or the other; goroutine 2 may PUT a document.
CopyReqs(p) ==
    {PutReq(k, "", p, Body(p), InitLevel[k]) : k \in Keys}
        \cup {GetColReq(MinVal, MaxVal, p)}

InitCopy ==
    /\ InitProcs
    /\ nodes = InitDocIndex({1})
    /\ docs = InitDocs({1}, Body(0))
    /\ subs = [s \in Subs |-> NoSub]
    /\ prog \in [Procs -> UNION {ProgsUpTo(CopyReqs(p), MaxOps) : p \in Procs}]
    /\ \A p \in Procs :
          /\ prog[p] \in ProgsUpTo(CopyReqs(p), MaxOps)
          /\ p = 1 => /\ Len(prog[p]) = MaxOps
                      /\ \E i \in 1..MaxOps : prog[p][i].kind = "getcol"
                      /\ \A i \in 1..MaxOps : prog[p][i].kind = "put" => prog[p][i].key = 1
          /\ p = 2 => Len(prog[p]) <= 1 /\ \A i \in 1..Len(prog[p]) : prog[p][i].kind = "put"
          /\ p > 2 => prog[p] = <<>>

NextCopy ==
    \/ NextPut
    \/ \E p \in Procs :
          \/ QueryCond(p)
          \/ QueryFirstScan(p)
          \/ QueryCopy(p)
          \/ QuerySecondScan(p)

SpecCopy == InitCopy /\ [][NextCopy]_vars

\* Two or three goroutines POST to the documents of a database at the same time;
\* some documents may be there already. No one subscribes.
PostReqs(p) == {PostReq(p, Body(p), 0)}

InitPost ==
    /\ InitProcs
    /\ subs = [s \in Subs |-> NoSub]
    /\ \E ks \in SUBSET Keys : nodes = InitDocIndex(ks) /\ docs = InitDocs(ks, Body(0))
    /\ prog \in [Procs -> UNION {{<<>>} \cup {<<r>> : r \in PostReqs(p)} : p \in Procs}]
    /\ \A p \in Procs :
          /\ prog[p] \in {<<>>} \cup {<<r>> : r \in PostReqs(p)}
          /\ p < NumProcs => prog[p] # <<>>

NextPost ==
    \/ NextPut
    \/ \E p \in Procs : PostName(p)

SpecPost == InitPost /\ [][NextPost]_vars

\* Requests with a path in which a name before the last is not there: the names
\* that are there come first (nothing is below a name that is not there). With two
\* names the database is missing; with four the database, the document or the
\* collection; a path may end with "/". NestedReqs are such requests of every
\* method; PlainReqs are requests whose path is all there but for the last name.
MissingPres == {<<FALSE>>, <<TRUE, TRUE, FALSE>>, <<TRUE, FALSE, FALSE>>,
                <<FALSE, FALSE, FALSE>>}
MissingTailPres == {<<TRUE, FALSE>>, <<FALSE, FALSE>>}

NestedReqs(p) ==
    {[Request("nested", m, pre, 1, Bearer(p)) EXCEPT !.body = Body(p)] :
        m \in {"GET", "PUT", "PATCH", "DELETE"}, pre \in MissingPres}
    \cup {[Request("nested", m, pre, MinVal, Bearer(p)) EXCEPT !.body = Body(p)] :
        m \in {"GET", "POST"}, pre \in MissingPres}
    \cup {[Request("nested", m, pre, 1, Bearer(p)) EXCEPT !.body = Body(p), !.tail = TRUE] :
        m \in {"GET", "PUT", "POST", "DELETE"}, pre \in MissingTailPres}

PlainReqs(p) == StreamReqs(p) \cup {GetReq(1, p), PostReq(p, Body(p), 0)}

\* Goroutine 1 makes a request with a missing name while goroutine 2 makes plain
\* ones; the collection has document 1 and subscribers.
InitNested ==
    /\ InitProcs
    /\ nodes = InitDocIndex({1})
    /\ docs = InitDocs({1}, Body(0))
    /\ subs = [s \in Subs |-> IF s = 1 THEN CollectionSubscriber(MinVal, MaxVal)
                              ELSE DocSubscriber(NumKeys)]
    /\ \E r \in NestedReqs(1) :
       \E u \in ProgsUpTo(PlainReqs(2), MaxOps) :
          prog = [p \in Procs |-> IF p = 1 THEN <<r>>
                                  ELSE IF p = 2 THEN u ELSE <<>>]

NextNested ==
    \/ NextGet
    \/ \E p \in Procs : PostName(p)

SpecNested == InitNested /\ [][NextNested]_vars

\* Authorization headers that let no one in: none, one that is not "Bearer " and
\* a token ("Bearer" without the blank; another scheme), an unknown token, an
\* expired token
BadHeaders ==
    {NoHeader, Header("Bearer", -1), Header("Basic 1", -1), Header("bearer ", 1),
     Bearer(UnknownToken), Bearer(ExpiredToken)}

\* requests of every method that would be served with a good header
AuthReqs(p) ==
    {[r EXCEPT !.auth = h] :
        r \in PlainReqs(p) \cup {PatchReq(1, p, TRUE, <<>>, 0)}, h \in BadHeaders}

\* Goroutine 1 makes a request with such a header while goroutine 2 makes a plain
\* request; the collection has document 1 and subscribers.
InitAuth ==
    /\ InitProcs
    /\ nodes = InitDocIndex({1})
    /\ docs = InitDocs({1}, Body(0))
    /\ subs = [s \in Subs |-> IF s = 1 THEN CollectionSubscriber(MinVal, MaxVal)
                              ELSE DocSubscriber(NumKeys)]
    /\ \E r \in AuthReqs(1) :
       \E u \in ProgsUpTo(PlainReqs(2), 1) :
          prog = [p \in Procs |-> IF p = 1 THEN <<r>>
                                  ELSE IF p = 2 THEN u ELSE <<>>]

SpecAuth == InitAuth /\ [][NextNested]_vars

\* Goroutines call IsTokenValid and DeleteToken on token 1 and AddToken while time
\* passes. At the start token 1 is not stored, or stored (AddPair) with an expiry
\* that has passed, that passes soon or that is an hour away.
TokenOps == {IsTokenValidOp(1), DeleteTokenOp(1), AddTokenOp(0)}

InitToken ==
    /\ InitLocals
    /\ nodes = InitIndex({}, InitLevel, PtrAdd)
    /\ docs = [n \in NodeIds |-> NoDoc]
    /\ subs = [s \in Subs |-> NoSub]
    /\ \E e \in {-1, 0, Deadline, Hour} :
          tokens = [t \in (IF e = -1 THEN {} ELSE {1}) |-> [name |-> t, expiry |-> e]]
    /\ \E a \in ProgsUpTo(TokenOps, MaxOps) :
       \E b \in [Procs \ {1} -> ProgsUpTo(TokenOps, 1)] :
          prog = [p \in Procs |-> IF p = 1 THEN a ELSE b[p]]

NextToken ==
    \/ Tick
    \/ \E p \in Procs : AuthCall(p) \/ AuthMap(p) \/ AuthReturn(p)

SpecToken == InitToken /\ [][NextToken]_vars

(* ------------- readers beside writers that stop where they are ------------- *)
\* goroutine 1 makes one Find, or one Query of the keys up to 1; the others make at
\* most one Upsert or Remove each, on any key beside a Find and on the keys above 1
\* beside the Query. Only goroutine 1 is scheduled fairly: a writer may stop for
\* ever at any step, with the locks it holds.
ReadOps == {FindOp(k) : k \in Keys} \cup {QueryOp(MinVal, 1, "nil")}

WritesBeside(r) ==
    LET ks == IF r.kind = "query" THEN {k \in Keys : k > r.hi} ELSE Keys
    IN  {UpsertOp(k, c, t) : k \in ks, c \in {"add", "err"}, t \in RandomLevels}
            \cup {RemoveOp(k) : k \in ks}

InitRead ==
    /\ InitCommon
    /\ \E ks \in SUBSET Keys : nodes = InitIndex(ks, InitLevel, PtrAdd)
    /\ \E r \in ReadOps :
        \E w2 \in ProgsUpTo(WritesBeside(r), 1), w3 \in ProgsUpTo(WritesBeside(r), 1) :
            /\ ProgRank(w2) <= ProgRank(w3)
            /\ prog = [p \in Procs |-> IF p = 1 THEN <<r>>
                                       ELSE IF p = 2 THEN w2
                                       ELSE IF p = 3 THEN w3 ELSE <<>>]

ReadStep ==
    \/ Call(1)
    \/ FindStep(1)
    \/ FindReturn(1)
    \/ QueryCond(1)
    \/ QueryFirstScan(1)
    \/ QuerySecondScan(1)

NextRead ==
    \E p \in Procs :
        \/ Call(p)
        \/ FindStep(p)
        \/ FindReturn(p)
        \/ QueryCond(p)
        \/ QueryFirstScan(p)
        \/ QuerySecondScan(p)
        \/ UpsertFound(p)
        \/ UpsertSpin(p)
        \/ UpsertLockFound(p)
        \/ UpsertCheckCall(p)
        \/ UpsertCheckReturn(p)
        \/ UpsertLockPred(p)
        \/ UpsertNew(p)
        \/ UpsertLink(p)
        \/ UpsertFinish(p)
        \/ RemoveFirst(p)
        \/ RemoveLockVictim(p)
        \/ RemoveLockPred(p)
        \/ RemoveUnlink(p)

\* weak fairness of goroutine 1. ReadReady says that one of its steps can be taken
\* and changes the state: the call is not made yet, or a round of the descent
\* moves on, or the goroutine is at another step of its call.
ReadReady ==
    IF procs[1].pc = "idle" THEN prog[1] # <<>>
    ELSE IF procs[1].pc = "find" THEN FindLoad(procs[1], nodes) # procs[1]
    ELSE TRUE

FairRead == <>[]ReadReady => []<><<ReadStep>>_vars

SpecRead == InitRead /\ [][NextRead]_vars /\ FairRead

(* ----------------- writes of every kind beside subscribers ----------------- *)
\* Document 1 exists; one subscriber listens to the whole collection, the others to
\* document 1. Goroutine 1 sends one PATCH of document 1, or a PUT of it whose body
\* is not an object; goroutine 2 may send a PUT, a DELETE or a POST.
FrameReqs(p) ==
    {PutReq(1, "", p, Body(p), InitLevel[1]), DeleteReq(1, p), PostReq(p, Body(p), 0)}

InitFrame ==
    /\ InitProcs
    /\ nodes = InitDocIndex({1})
    /\ docs = InitDocs({1}, Doc0)
    /\ subs = [s \in Subs |-> IF s = 1 THEN CollectionSubscriber(MinVal, MaxVal)
                              ELSE DocSubscriber(1)]
    /\ \E r \in PatchReqs(1) \cup {PutReq(1, "", 1, Num(0), InitLevel[1])} :
       \E u \in ProgsUpTo(FrameReqs(2), 1) :
          prog = [p \in Procs |-> IF p = 1 THEN <<r>>
                                  ELSE IF p = 2 THEN u ELSE <<>>]

NextFrame ==
    \/ NextDoc
    \/ \E p \in Procs : PostName(p)
    \/ \E s \in Subs : SubWrite(s) \/ SubKeepAlive(s)

SpecFrame == InitFrame /\ [][NextFrame]_vars

(* ---------------- writes beside a DELETE of the database ------------------- *)
\* The database holds document 1. Goroutine 1 sends a PUT of document 1 or 2, a
\* PATCH of document 1 or a POST; goroutine 2 sends DELETE of the database;
\* goroutine 3 may send a PUT of document 2.
DetachReqs(p) ==
    {PutReq(k, "", p, Body(p), InitLevel[k]) : k \in Keys}
        \cup {PatchReq(1, p, TRUE, <<AddOwnKey(p)>>, 0), PostReq(p, Body(p), 0)}

InitDetach ==
    /\ InitProcs
    /\ subs = [s \in Subs |-> NoSub]
    /\ nodes = InitDocIndex({1})
    /\ docs = InitDocs({1}, Doc0)
    /\ \E r \in DetachReqs(1) :
       \E u \in {<<>>, <<PutReq(NumKeys, "", 3, Body(3), InitLevel[NumKeys])>>} :
          prog = [p \in Procs |-> IF p = 1 THEN <<r>>
                                  ELSE IF p = 2 THEN <<DropDbReq(p)>>
                                  ELSE IF p = 3 THEN u ELSE <<>>]

NextDetach ==
    \/ NextPost
    \/ \E p \in Procs : DeleteDatabase(p)

SpecDetach == InitDetach /\ [][NextDetach]_vars

(* ------------------------ completed calls and keys --------------------- *)
\* every call has returned
AllDone == \A p \in Procs : procs[p].pc = "idle" /\ prog[p] = <<>>

\* the completed calls, each named by its goroutine and its place in the history
DoneCalls == UNION {{<<p, i>> : i \in 1..Len(hist[p])} : p \in Procs}
Res(c) == hist[c[1]][c[2]]
UpsertsOn(k) == {c \in DoneCalls : Res(c).op.kind = "upsert" /\ Res(c).op.key = k}
RemovesOn(k) == {c \in DoneCalls : Res(c).op.kind = "remove" /\ Res(c).op.key = k}

\* a call of this kind on key k was, is or will be made
Issued(kind, k) ==
    \E p \in Procs :
        \/ \E i \in 1..Len(hist[p]) : hist[p][i].op.kind = kind /\ hist[p][i].op.key = k
        \/ procs[p].op.kind = kind /\ procs[p].op.key = k
        \/ \E i \in 1..Len(prog[p]) : prog[p][i].kind = kind /\ prog[p][i].key = k

\* key k was in the index when the goroutines started
InitiallyPresent(k) == nodes[InitNodeId(k)].key = k

\* the nodes linked at level 0 between head and tail, in order
RECURSIVE ChainFrom(_, _, _)
ChainFrom(ns, n, fuel) ==
    IF n = TailId \/ fuel = 0 THEN <<>>
    ELSE <<n>> \o ChainFrom(ns, ns[n].next[1], fuel - 1)
Chain0 == ChainFrom(nodes, nodes[HeadId].next[1], NumNodes)
Occurrences(k) == Cardinality({i \in 1..Len(Chain0) : nodes[Chain0[i]].key = k})

\* the value stored under a key that is in the index
ValueOf(k) ==
    Contents(nodes)[k]

(* -------------------------------- C1 ----------------------------------- *)
\* C1: for a key that is absent at the start and that no Remove is called on, at
\* most one check invocation sees exists=false at any moment of any interleaving of
\* the Upserts on it; when all calls have returned exactly one did, every other
\* Upsert on the key saw exists=true, and the key is linked exactly once.
C1_OneInsertPerKey ==
    \A k \in Keys :
        (~InitiallyPresent(k) /\ ~Issued("remove", k)) =>
            /\ nCheck[k].f <= 1
            /\ Cardinality({c \in UpsertsOn(k) : ~Res(c).exists}) <= 1
            /\ (AllDone /\ UpsertsOn(k) # {}) =>
                   /\ nCheck[k].f = 1
                   /\ Cardinality({c \in UpsertsOn(k) : ~Res(c).exists}) = 1
                   /\ nCheck[k].t = Cardinality(UpsertsOn(k)) - 1
                   /\ Cardinality({c \in UpsertsOn(k) : Res(c).exists})
                          = Cardinality(UpsertsOn(k)) - 1
                   /\ Occurrences(k) = 1
                   /\ Live(nodes, k)

\* every goroutine upserted the same absent key, and all have returned
C1_Witness ==
    /\ AllDone
    /\ \E k \in Keys :
          /\ ~InitiallyPresent(k)
          /\ Cardinality(UpsertsOn(k)) = NumProcs
          /\ nCheck[k].f = 1 /\ nCheck[k].t = NumProcs - 1

(* -------------------------------- C7 ----------------------------------- *)
\* C7: no two check invocations for one key are in progress at once, and when all
\* calls have returned a key that only in-place adding checks were applied to holds
\* the sum of all the additions (none is lost).
C7_ChecksSerialized ==
    /\ \A k \in Keys :
          Cardinality({p \in Procs : procs[p].pc = "u_checked" /\ procs[p].op.key = k}) <= 1
    /\ AllDone =>
          \A k \in Keys :
              (UpsertsOn(k) # {} /\ \A c \in UpsertsOn(k) : Res(c).op.chk = "add") =>
                  /\ Live(nodes, k)
                  /\ ValueOf(k) = PtrAdd * (Cardinality(UpsertsOn(k))
                                            + IF InitiallyPresent(k) THEN 1 ELSE 0)

\* every goroutine added in place to the same key, two of them to the existing entry
C7_Witness ==
    /\ AllDone
    /\ \E k \in Keys :
          /\ Cardinality({c \in UpsertsOn(k) : Res(c).op.chk = "add" /\ Res(c).exists})
                 >= NumProcs - 1
          /\ Cardinality(UpsertsOn(k)) = NumProcs
          /\ ValueOf(k) >= PtrAdd * NumProcs

\* the keys a Query over [lo, hi] returns when it runs alone: its first scan
RECURSIVE ScanFrom(_, _, _, _, _)
ScanFrom(ns, n, lo, hi, fuel) ==
    IF fuel = 0 \/ ~InScan(ns, n, lo, hi) THEN <<>>
    ELSE (IF ns[n].marked THEN <<>> ELSE <<ns[n].key>>)
             \o ScanFrom(ns, ns[n].next[1], lo, hi, fuel - 1)

QueryAlone(ns, lo, hi) == ScanFrom(ns, ns[HeadId].next[1], lo, hi, NumNodes)

\* the entries of content c with lo <= key <= hi, in ascending key order
RECURSIVE RangeOf(_, _, _)
RangeOf(c, lo, hi) ==
    IF lo > hi THEN [keys |-> <<>>, values |-> <<>>]
    ELSE LET r == RangeOf(c, lo + 1, hi)
         IN  IF c[lo] # -1
             THEN [keys |-> <<lo>> \o r.keys, values |-> <<c[lo]>> \o r.values]
             ELSE r

QueriesDone == {c \in DoneCalls : Res(c).op.kind = "query" /\ ~Res(c).err}
FindsDone == {c \in DoneCalls : Res(c).op.kind = "find"}

(* -------------------------------- C2 ----------------------------------- *)
\* C2: a Find of a key made right after an Upsert of that key returned without
\* error (no other call in between) finds the key and returns the value the
\* Upsert's check returned, were the key inserted or already present.
C2_FindReturnsCheckValue ==
    \A p \in Procs : \A i \in 1..Len(hist[p]) :
        (/\ i + 1 <= Len(hist[p])
         /\ \A q \in Procs \ {p} : hist[q] = <<>> /\ procs[q].pc = "idle"
         /\ hist[p][i].op.kind = "upsert" /\ ~hist[p][i].err
         /\ hist[p][i + 1].op.kind = "find"
         /\ hist[p][i + 1].op.key = hist[p][i].op.key) =>
            /\ hist[p][i + 1].ok
            /\ hist[p][i + 1].val = hist[p][i].val

(* -------------------------------- C3 ----------------------------------- *)
\* C3: an Upsert whose check fails returns the error and leaves the content of the
\* index as it was, and a goroutine that is not inside a call holds no node lock.
C3_FailedCheckChangesNothing ==
    /\ \A c \in DoneCalls :
          (Res(c).op.kind = "upsert" /\ Res(c).op.chk = "err") =>
              Res(c).err /\ Res(c).kept
    /\ \A p \in Procs :
          procs[p].pc = "idle" => \A n \in NodeIds : nodes[n].mtx # p

(* -------------------------------- C4 ----------------------------------- *)
\* C4: a Query that no other call ran beside returns exactly the entries of the
\* index with low <= key <= high, in ascending key order.
C4_QueryExact ==
    \A c \in QueriesDone :
        (\A q \in Procs \ {c[1]} : hist[q] = <<>> /\ procs[q].pc = "idle") =>
            Res(c).val = RangeOf(Linked(nodes), Res(c).op.key, Res(c).op.hi)

(* -------------------------------- C5 ----------------------------------- *)
\* C5: what a Query from the lower bound returns is the range of one content the index had at some
\* moment between the Query's start and its return, and a Query does not return
\* when the content changed between the end of its first scan and its return.
C5_QuerySnapshot ==
    \A c \in QueriesDone :
      Res(c).op.key = MinVal =>
        /\ \E snap \in Res(c).snaps :
              Res(c).val = RangeOf(snap, Res(c).op.key, Res(c).op.hi)
        /\ Res(c).kept

(* -------------------------------- C6 ----------------------------------- *)
\* C6: after a pair of scans that did not match, a Query whose context is done
\* (cancelled, or past its deadline) does not start another pair of scans.
C6_QueryStopsWhenDone ==
    \A p \in Procs : ~procs[p].afterDone

(* -------------------------------- C8 ----------------------------------- *)
\* C8: a Find that returns found=true was called on a key that was in the index
\* (inserted, fully linked, not marked) at some moment of the call; so a Find of a
\* key that was never inserted, the bounds given to New included, returns false.
C8_FindOnlyLive ==
    \A c \in FindsDone : Res(c).ok => Res(c).sawLive

\* the same for the keys below the upper bound
C8_FindOnlyLiveBelowMax ==
    \A c \in FindsDone : (Res(c).op.key < MaxVal /\ Res(c).ok) => Res(c).sawLive

(* -------------------------------- C9 ----------------------------------- *)
\* the keys that exactly one Upsert and exactly one Remove were called on
Paired == {k \in Keys : Cardinality(UpsertsOn(k)) = 1 /\ Cardinality(RemovesOn(k)) = 1}
RemovedKeys == {k \in Keys : \E c \in RemovesOn(k) : Res(c).ok}
QueriedKeys == {QueryAlone(nodes, MinVal, MaxVal)[i] :
                   i \in 1..Len(QueryAlone(nodes, MinVal, MaxVal))}

\* every key of ks is either reported removed or returned by the full-range Query,
\* not both, and the Query returns it once
AccountedOnce(ks) ==
    /\ Cardinality(RemovedKeys \cap ks)
           + Cardinality({i \in 1..Len(QueryAlone(nodes, MinVal, MaxVal)) :
                             QueryAlone(nodes, MinVal, MaxVal)[i] \in ks})
           = Cardinality(ks)
    /\ RemovedKeys \cap QueriedKeys \cap ks = {}

C10_RemoveOnce ==
    /\ \A k \in Keys :
          Cardinality({c \in RemovesOn(k) : Res(c).ok})
              <= nCheck[k].f + IF InitiallyPresent(k) THEN 1 ELSE 0
    /\ \A k \in Keys : \A c \in RemovesOn(k) :
          /\ ~Res(c).sawLive => ~Res(c).ok
          /\ ~Res(c).ok => ~Res(c).wrote
    /\ \A c \in FindsDone :
          Res(c).op.key \in Keys =>
              /\ Res(c).ok => Res(c).sawLive
              /\ ~Res(c).ok => Res(c).sawDead

\* two Removes of one key have returned, one true and one false, and a Find of
\* another key has found it
C10_Witness ==
    /\ AllDone
    /\ \E k \in Keys :
          /\ Cardinality({c \in RemovesOn(k) : Res(c).ok}) = 1
          /\ Cardinality({c \in RemovesOn(k) : ~Res(c).ok}) >= 1
          /\ \E c \in FindsDone : Res(c).op.key \in Keys \ {k} /\ Res(c).ok

(* ------------------------------ requests ------------------------------- *)
\* the completed requests of a kind for the name k
Requests(kind, k) == {c \in DoneCalls : Res(c).op.kind = kind /\ Res(c).op.key = k}

\* the completed PUTs of document k whose body the schema accepts
ValidPuts(k) == {c \in Requests("put", k) : Validate(Res(c).op.body)}

Answered(S, status) == {c \in S : Res(c).status = status}

\* of the PUTs in S never more than one is answered 201 Created, and when all have
\* been answered exactly one was
OneCreated(S) ==
    /\ Cardinality(Answered(S, StatusCreated)) <= 1
    /\ (AllDone /\ S # {}) => Cardinality(Answered(S, StatusCreated)) = 1

\* C11 as stated: of the concurrent PUTs with valid bodies of one document that was
\* absent, exactly one is answered 201 Created and every other one 200 OK
C11_OneCreatedOthersOK ==
    \A k \in Keys :
        ~InitiallyPresent(k) =>
            /\ OneCreated(ValidPuts(k))
            /\ \A c \in ValidPuts(k) : Res(c).status \in {StatusCreated, StatusOK}

\* C11 amended: of the concurrent PUTs with valid bodies of one document that was
\* absent, exactly one is answered 201 Created; every other one is answered 200 OK,
\* or 412 Precondition Failed if it carries mode=nooverwrite
C11_OneCreated ==
    \A k \in Keys :
        ~InitiallyPresent(k) =>
            /\ OneCreated(ValidPuts(k))
            /\ \A c \in ValidPuts(k) :
                  \/ Res(c).status \in {StatusCreated, StatusOK}
                  \/ /\ Res(c).status = StatusPreconditionFailed
                     /\ Res(c).op.mode = "nooverwrite"

\* three concurrent PUTs of an absent document, none with mode=nooverwrite: one was
\* answered 201 and two 200
C11_Witness ==
    /\ AllDone
    /\ \E k \in Keys :
          /\ ~InitiallyPresent(k)
          /\ Cardinality(ValidPuts(k)) = NumProcs
          /\ \A c \in ValidPuts(k) : Res(c).op.mode = ""
          /\ Cardinality(Answered(ValidPuts(k), StatusOK)) = NumProcs - 1

\* the databases: the names in the index of databases and what each points to
InitialDb(k) == NewDocument(k, Body(0), InitUser, k)

\* C12: a PUT of a database is answered 201 or 400; a database that existed keeps
\* its node, its collection and its contents and every PUT of it is answered 400;
\* of the PUTs of a new database never more than one is answered 201, exactly one
\* when all are answered, and the name is in the index once
C12_PutDatabase ==
    \A k \in Keys :
        /\ \A c \in Requests("putdb", k) : Res(c).status \in {StatusCreated, StatusBadRequest}
        /\ Occurrences(k) <= 1
        /\ IF InitiallyPresent(k)
           THEN /\ Answered(Requests("putdb", k), StatusCreated) = {}
                /\ Live(nodes, k)
                /\ ValueOf(k) = InitNodeId(k)
                /\ docs[InitNodeId(k)] = InitialDb(k)
           ELSE /\ OneCreated(Requests("putdb", k))
                /\ Answered(Requests("putdb", k), StatusCreated) # {} => Live(nodes, k)

\* three concurrent PUTs of a new database: one answered 201, two answered 400, one
\* of these by the check that Upsert called with exists=true
C12_Witness ==
    /\ AllDone
    /\ \E k \in Keys :
          /\ ~InitiallyPresent(k)
          /\ Cardinality(Answered(Requests("putdb", k), StatusBadRequest)) = NumProcs - 1
          /\ \E c \in Requests("putdb", k) : Res(c).viaUpsert /\ Res(c).exists

\* the completed PUTs with mode=nooverwrite
NoOverwritePuts ==
    {c \in DoneCalls : Res(c).op.kind = "put" /\ Res(c).op.mode = "nooverwrite"}

\* the document existed when the request took effect: lastRealItem found it, or
\* Upsert gave the check exists=true
TookEffectOnExisting(c) ==
    IF Res(c).viaUpsert THEN Res(c).exists ELSE Res(c).ok

\* C13: a PUT with mode=nooverwrite that takes effect when the document exists is
\* answered 412 and leaves the document's data and metadata as they were
C13_NoOverwriteKeeps ==
    \A c \in NoOverwritePuts :
        TookEffectOnExisting(c) =>
            /\ Res(c).status = StatusPreconditionFailed
            /\ Res(c).docIs = Res(c).docWas

\* C14: a step never changes the createdAt, createdBy or name of a document, and
\* a step that changes a document sets its lastModifiedAt to the time of the step
\* and its lastModifiedBy to the user of the request whose check makes the step
C14_CreatedKept ==
    [][\A n \in NodeIds :
          docs[n] # NoDoc =>
              /\ docs'[n].createdAt = docs[n].createdAt
              /\ docs'[n].createdBy = docs[n].createdBy
              /\ docs'[n].name = docs[n].name
              /\ docs'[n] # docs[n] =>
                    /\ clock' > clock
                    /\ docs'[n].lastModifiedAt = clock'
                    /\ \E p \in Procs :
                          /\ procs[p].pc = "u_checked" /\ procs'[p].applied
                          /\ ~procs[p].applied
                          /\ procs[p].tmp = n
                          /\ docs'[n].lastModifiedBy = procs[p].req.user]_vars

\* a PUT overwrite and a PATCH by two users have both modified a document another
\* user created: it has its creation fields and the last modifier's name and time
C14_Witness ==
    /\ AllDone
    /\ \E c \in Requests("put", 1), d \in Requests("patch", 1) :
          /\ Res(c).status = StatusOK
          /\ Res(d).status = StatusOK /\ ~Res(d).patchFailed
          /\ Res(d).docWas.lastModifiedBy = Res(c).op.user
          /\ docs[InitNodeId(1)].createdBy = InitUser
          /\ docs[InitNodeId(1)].createdAt = 1
          /\ docs[InitNodeId(1)].lastModifiedBy = Res(d).op.user
          /\ docs[InitNodeId(1)].lastModifiedAt > Res(d).docWas.lastModifiedAt

\* the completed PATCHes whose check ran on the existing document with a list of
\* operations
CheckedPatches ==
    {c \in DoneCalls : /\ Res(c).op.kind = "patch" /\ Res(c).op.isList
                       /\ Res(c).viaUpsert /\ Res(c).exists /\ ~Res(c).panicked}

\* an operation of the request failed to apply: its operations are patch operations
\* up to one for which the DocVisitor returned an error
FailedToApply(c) ==
    LET r == PatchLoop(Res(c).docWas.data, Res(c).op.ops, StatusOK)
    IN  r.patchFailed /\ r.retStatus = StatusOK

\* C15: a PATCH with an operation that fails to apply is answered 200 with
\* patchFailed=true, the document is when the check returns what it was when the
\* check began, data and metadata, and notificationHelper was not called
C15_AllOrNothing ==
    \A c \in CheckedPatches :
        FailedToApply(c) =>
            /\ Res(c).status = StatusOK
            /\ Res(c).patchFailed
            /\ Res(c).docIs = Res(c).docWas
            /\ ~Res(c).notified

\* a PATCH whose first operation added a key and whose second ran off the end of
\* an array was answered 200 with patchFailed=true, the document without the key
C15_Witness ==
    \E c \in CheckedPatches :
        /\ Res(c).op.ops = <<AddOwnKey(1), PatchOp("ArrayAdd", Path(<<"arr", "1">>), Num(2))>>
        /\ Accept(Res(c).docWas.data, NewDocVisitor("ObjectAdd", Path(<<"b">>), Num(1))).val
               # Res(c).docWas.data
        /\ FailedToApply(c)
        /\ Res(c).patchFailed
        /\ ~\E e \in docs[InitNodeId(1)].data.members : e.k = "b"

HasKey(j, k) == \E e \in j.members : e.k = k

\* the completed PATCHes of document k that applied: answered 200, patchFailed=false
AppliedPatches(k) ==
    {c \in CheckedPatches : /\ Res(c).op.key = k /\ Res(c).status = StatusOK
                            /\ ~Res(c).patchFailed}

\* the requests that modified document k: the applied PATCHes and the PUTs that
\* overwrote it
Modifiers(k) ==
    AppliedPatches(k) \cup
    {c \in Requests("put", k) : Res(c).viaUpsert /\ Res(c).exists}

\* C16: the requests that modified a document ran one after another: each began
\* with the document the one before it left (or with the first document), no two
\* with the same one, and the stored document is what the last one left; so when
\* the PATCHes that each ObjectAdd a key of their own have all applied and no PUT
\* overwrote the document, it holds all their keys
C16_OneAfterAnother ==
    \A k \in Keys :
        InitiallyPresent(k) =>
            /\ \A c \in Modifiers(k) :
                  \/ Res(c).docWas = InitDocs({k}, Doc0)[InitNodeId(k)]
                  \/ \E d \in Modifiers(k) \ {c} : Res(c).docWas = Res(d).docIs
            /\ \A c, d \in Modifiers(k) : c # d => Res(c).docWas # Res(d).docWas
            /\ (AllDone /\ Requests("put", k) = {}) =>
                   \A c \in AppliedPatches(k) :
                       \A i \in 1..Len(Res(c).op.ops) :
                           Res(c).op.ops[i] = AddOwnKey(c[1]) =>
                               HasKey(docs[InitNodeId(k)].data, OwnKey(c[1]))

\* two concurrent PATCHes that ObjectAdd two different keys have both returned
\* patchFailed=false, the second having begun with the key of the first, and the
\* document holds both keys
C16_Witness ==
    /\ AllDone
    /\ \E c, d \in AppliedPatches(1) :
          /\ c # d
          /\ Res(c).op.ops = <<AddOwnKey(2)>>
          /\ Res(d).op.ops = <<AddOwnKey(3)>>
          /\ Res(d).docWas = Res(c).docIs
          /\ HasKey(docs[InitNodeId(1)].data, OwnKey(2))
          /\ HasKey(docs[InitNodeId(1)].data, OwnKey(3))

\* the path piece does not name an element of an array of length len: it is no
\* decimal integer, or one below 0 or not below len
NoElement(seg, len) == ~Atoi(seg).ok \/ Atoi(seg).n < 0 \/ Atoi(seg).n >= len

\* the completed PATCHes of one operation whose path goes to "arr", an array of
\* the document, and selects none of its elements
BadIndexPatches ==
    {c \in DoneCalls :
        /\ Res(c).op.kind = "patch" /\ Res(c).viaUpsert /\ Res(c).exists
        /\ Len(Res(c).op.ops) = 1
        /\ PatchVisitorMap(Res(c).op.ops[1])
        /\ Res(c).op.ops[1].op \in {"ArrayAdd", "ArrayRemove", "ObjectAdd"}
        /\ Len(Res(c).op.ops[1].path) = 3
        /\ Res(c).op.ops[1].path[1] = "" /\ Res(c).op.ops[1].path[2] = "arr"
        /\ \E e \in Res(c).docWas.data.members :
              /\ e.k = "arr" /\ e.v.t = "arr"
              /\ NoElement(Res(c).op.ops[1].path[3], Len(e.v.items))}

\* the locks goroutine p holds
HeldBy(p) == {n \in NodeIds : nodes[n].mtx = p}

\* C17: a PATCH whose path selects no element of an array is answered 200 with
\* patchFailed=true, leaves the document unchanged, its handler does not panic,
\* and when it has finished the goroutine holds no lock of the index
C17_BadIndexFails ==
    \A c \in BadIndexPatches :
        /\ Res(c).status = StatusOK
        /\ Res(c).patchFailed
        /\ ~Res(c).panicked
        /\ Res(c).docIs = Res(c).docWas
        /\ procs[c[1]].pc = "idle" => HeldBy(c[1]) = {}

\* C17 for the indexes that are not negative: numbers too large and pieces that
\* are no number
C17_BadIndexFailsUnlessNegative ==
    \A c \in BadIndexPatches :
        Atoi(Res(c).op.ops[1].path[3]).n >= 0 =>
            /\ Res(c).status = StatusOK
            /\ Res(c).patchFailed
            /\ ~Res(c).panicked
            /\ Res(c).docIs = Res(c).docWas
            /\ procs[c[1]].pc = "idle" => HeldBy(c[1]) = {}

\* the goroutines in notifySubscriptions' loop, at a subscriber
Notifying == {p \in Procs : procs[p].applied /\ procs[p].pending # {}}

\* the subscriber can take a message or has closed its done channel
Ready(s) == subs[s].st = "select" \/ subs[s].closed

\* C18: a subscriber that is at its select, in range of the document and still
\* to be given the frame is never behind a subscriber that is not reading: the loop
\* is at it, or at a subscriber that takes the message or is done
C18_NoStall ==
    \A p \in Notifying :
        \A s \in procs[p].pending :
            (subs[s].st = "select" /\ InRange(subs[s], procs[p].op.key)) =>
                (procs[p].target = s \/ Ready(procs[p].target))

\* C19: a request that notifies never waits for a subscriber, with the locks of
\* the index it holds: whenever it is in notifySubscriptions' loop, its select can
\* go on at once
C19_ProducerNeverWaits ==
    \A p \in Notifying : Ready(procs[p].target)

\* the frames of a sequence that are in the subscriber's range, in order
RECURSIVE InRangeOf(_, _)
InRangeOf(sub, frames) ==
    IF frames = <<>> THEN <<>>
    ELSE IF Head(frames).docName >= sub.low /\ Head(frames).docName <= sub.high
         THEN <<Head(frames)>> \o InRangeOf(sub, Tail(frames))
         ELSE InRangeOf(sub, Tail(frames))

\* C20: a subscriber has written, in order, the frames it received whose document
\* is in its range, the one it is writing excepted, and no other frame; a
\* subscriber to a document has written frames of that document only
C20_WritesInRange ==
    \A s \in Subs :
        /\ InRangeOf(subs[s], subs[s].got) =
               subs[s].wrote \o (IF subs[s].st = "writing"
                                    /\ subs[s].frame.ev # "keepalive"
                                 THEN <<subs[s].frame>> ELSE <<>>)
        /\ subs[s].low = subs[s].high =>
               \A i \in 1..Len(subs[s].wrote) : subs[s].wrote[i].docName = subs[s].low

\* a subscriber to a document received a frame about another document and a frame
\* about its own, and wrote the one about its own only
C20_Witness ==
    \E s \in Subs :
        /\ subs[s].low = subs[s].high
        /\ Len(subs[s].got) = 2
        /\ \E i \in 1..2 : subs[s].got[i].docName # subs[s].low
        /\ Len(subs[s].wrote) = 1
        /\ subs[s].wrote[1].docName = subs[s].low
        /\ subs[s].st = "select"

(* -------------------------------- C21 ---------------------------------- *)
\* the frames subscriber s has written to its client, with the one it is writing
Stream(s) ==
    subs[s].wrote \o (IF subs[s].st = "writing" /\ subs[s].frame.ev # "keepalive"
                      THEN <<subs[s].frame>> ELSE <<>>)

\* the places in the stream of s of the frames that request c sent
FramesBy(s, c) == {i \in 1..Len(Stream(s)) : Stream(s)[i].by = c}

\* the completed requests that came after subscriber s was added to the map
After_Reg(s) == {c \in DoneCalls : c[2] > subs[s].reg[c[1]]}

\* the subscriber has found its document and is in its loop
InLoop(s) == subs[s].ptr # 0 /\ subs[s].st \in {"select", "writing"}

\* C21: the stream of a subscriber to a document that found it begins with one
\* update frame, written before it was added; every PUT that came later and is
\* answered 200 or 201 has put one update frame into the stream, every DELETE
\* answered 204 one delete frame, and the frames of one goroutine's requests are in
\* the order of the requests
C21_Stream ==
    \A s \in Subs :
        InLoop(s) =>
            /\ Len(Stream(s)) >= 1
            /\ Stream(s)[1].ev = "update"
            /\ FramesBy(s, <<0, 0>>) = {1}
            /\ \A c \in After_Reg(s) :
                  /\ Res(c).op.kind = "put" /\ Res(c).status \in {StatusOK, StatusCreated}
                        => \E i \in FramesBy(s, c) :
                              FramesBy(s, c) = {i} /\ Stream(s)[i].ev = "update"
                  /\ Res(c).op.kind = "delete" /\ Res(c).status = StatusNoContent
                        => \E i \in FramesBy(s, c) :
                              FramesBy(s, c) = {i} /\ Stream(s)[i].ev = "delete"
            /\ \A i, j \in 1..Len(Stream(s)) :
                  /\ Stream(s)[i].by[1] = Stream(s)[j].by[1]
                  /\ Stream(s)[i].by[2] < Stream(s)[j].by[2]
                  => i < j

\* the subscriber has written its first frame, then the frame of a PUT and the
\* frame of the DELETE the same goroutine made after it
C21_Witness ==
    \E s \in Subs :
        /\ InLoop(s)
        /\ Len(subs[s].wrote) = 3
        /\ subs[s].wrote[2].ev = "update" /\ subs[s].wrote[2].by = <<1, 1>>
        /\ subs[s].wrote[3].ev = "delete" /\ subs[s].wrote[3].by = <<1, 2>>
        /\ Len(hist[1]) = 2

\* a document as some request left it: in this model the body of a PUT names the
\* user that sent it, and the document at the start is the work of InitUser
Whole(doc) == doc.data = Body(doc.lastModifiedBy)

\* C21, first frame: the update frame a subscriber to a document writes first
\* carries the document as some request left it
C21_FirstFrameCurrent ==
    \A s \in Subs : InLoop(s) => Whole(Stream(s)[1].doc)

(* -------------------------------- C22 ---------------------------------- *)
\* goroutine q sent, sends or will send a request of this kind for the name k
Sends(q, kind, k) ==
    \/ \E i \in 1..Len(hist[q]) : hist[q][i].op.kind = kind /\ hist[q][i].op.key = k
    \/ procs[q].req.kind = kind /\ procs[q].req.key = k
    \/ \E i \in 1..Len(prog[q]) : prog[q][i].kind = kind /\ prog[q][i].key = k

\* nobody but the sender of request c PUTs or DELETEs the document of c
Undisturbed(c) ==
    \A q \in Procs \ {c[1]} :
        ~Sends(q, "put", Res(c).op.key) /\ ~Sends(q, "delete", Res(c).op.key)

\* the messages subscriber s has received from request c
GotFrom(s, c) == {i \in 1..Len(subs[s].got) : subs[s].got[i].by = c}

\* C22: a DELETE of a document that is there, and that nobody else writes, is
\* answered 204; after a DELETE answered 204 the document is not in the index and a
\* GET of it by the same client is answered 404, unless somebody PUTs it again; and
\* every subscriber of the collection has received one delete message for the
\* document, which it writes if the name is in its range
C22_Delete ==
    \A c \in DoneCalls :
        Res(c).op.kind = "delete" =>
            /\ c[2] = 1 /\ InitiallyPresent(Res(c).op.key) /\ Undisturbed(c)
                  => Res(c).status = StatusNoContent
            /\ Res(c).status = StatusNoContent =>
                  /\ ~Issued("put", Res(c).op.key) => ~Live(nodes, Res(c).op.key)
                  /\ \A g \in Requests("get", Res(c).op.key) :
                        g[1] = c[1] /\ g[2] > c[2] /\ ~Issued("put", Res(c).op.key)
                        => Res(g).status = StatusNotFound
                  /\ \A s \in Subs :
                        /\ \E i \in GotFrom(s, c) :
                              /\ GotFrom(s, c) = {i}
                              /\ subs[s].got[i].ev = "delete"
                              /\ subs[s].got[i].docName = Res(c).op.key
                        /\ InRange(subs[s], Res(c).op.key)
                              => \E i \in FramesBy(s, c) : Stream(s)[i].ev = "delete"

\* a DELETE was answered 204, the GET after it 404, and a subscriber has written
\* the delete frame
C22_Witness ==
    /\ Len(hist[1]) = 2
    /\ hist[1][1].op.kind = "delete" /\ hist[1][1].status = StatusNoContent
    /\ hist[1][2].op.kind = "get" /\ hist[1][2].status = StatusNotFound
    /\ \E i \in 1..Len(subs[1].wrote) :
          subs[1].wrote[i].ev = "delete" /\ subs[1].wrote[i].by = <<1, 1>>
    /\ subs[NumSubs].got # <<>> /\ subs[NumSubs].wrote = <<>>

(* -------------------------------- C23 ---------------------------------- *)
\* a goroutine is in notifySubscriptions' select for subscriber s
WaitingOn(p, s) == procs[p].pending # {} /\ procs[p].target = s

\* C23: a subscriber whose reader is in the collection's map has an open done
\* channel; a subscriber whose context is done returns at some time, with its
\* reader out of the map and its done channel closed; and a goroutine that is
\* sending to a subscriber that has returned gets on
C23_Exit ==
    /\ [](\A s \in Subs : subs[s].inSet => ~subs[s].closed)
    /\ \A s \in Subs :
          subs[s].ctx ~> (subs[s].st = "gone" /\ ~subs[s].inSet /\ subs[s].closed)
    /\ \A p \in Procs : \A s \in Subs :
          (WaitingOn(p, s) /\ subs[s].st = "gone") ~> ~WaitingOn(p, s)

\* a subscriber has returned while a goroutine was sending to it
C23_Witness ==
    \E p \in Procs : \E s \in Subs :
        /\ WaitingOn(p, s)
        /\ subs[s].st = "gone" /\ subs[s].ctx /\ ~subs[s].inSet /\ subs[s].closed

(* -------------------------------- C24 ---------------------------------- *)
\* a DELETE of the database or of the collection has been answered 204
Dropped ==
    \E c \in DoneCalls :
        Res(c).op.kind \in {"deldb", "delcol"} /\ Res(c).status = StatusNoContent

\* C24: when the database or collection has been removed by a DELETE, every
\* subscriber registered on it is woken and its loop returns, though its client
\* stays
C24_SubscribersReturn ==
    \A s \in Subs : Dropped ~> (subs[s].got # <<>> /\ subs[s].st = "gone")

(* -------------------------------- C25 ---------------------------------- *)
\* C25: of two messages about one document that a subscriber has received, the one
\* whose mutation took effect first has the smaller id, or the same
C25_IdsInOrder ==
    \A s \in Subs : \A i, j \in 1..Len(subs[s].got) :
        /\ subs[s].got[i].docName = subs[s].got[j].docName
        /\ subs[s].got[i].at < subs[s].got[j].at
        => subs[s].got[i].id <= subs[s].got[j].id

(* -------------------------------- C26 ---------------------------------- *)
\* C26: the document in the answer of a GET of a document is the document as some
\* request left it: data and metadata of one version
C26_GetOneVersion ==
    \A g \in DoneCalls :
        Res(g).op.kind = "get" /\ Res(g).status = StatusOK => Whole(Res(g).docIs)

(* -------------------------------- C27 ---------------------------------- *)
\* the documents in the answer of the completed collection GET c, by name
Returned(ds, c) ==
    [i \in 1..Len(Res(c).val.values) |-> Deref(ds, Res(c).val.values[i])]

\* the place of the name k in the answer of c, 0 if it is not in it
PlaceOf(c, k) ==
    IF \E i \in 1..Len(Res(c).val.keys) : Res(c).val.keys[i] = k
    THEN CHOOSE i \in 1..Len(Res(c).val.keys) : Res(c).val.keys[i] = k
    ELSE 0

\* C27: no step changes a document that a completed query of the collection has
\* returned; and when a goroutine's PUT of a document that no other goroutine
\* writes has been answered 200 or 201, its next query of the collection returns
\* the document as the PUT left it
C27_OwnedSnapshots ==
    /\ [][\A c \in DoneCalls :
             Res(c).op.kind = "getcol" /\ Res(c).ok
                 => Returned(docs', c) = Returned(docs, c)]_vars
    /\ [](\A c \in DoneCalls : \A w \in DoneCalls :
             /\ Res(c).op.kind = "getcol" /\ Res(c).ok
             /\ Res(w).op.kind = "put" /\ Res(w).status \in {StatusOK, StatusCreated}
             /\ w[1] = c[1] /\ w[2] + 1 = c[2]
             /\ Undisturbed(w)
             => /\ PlaceOf(c, Res(w).op.key) # 0
                /\ Returned(docs, c)[PlaceOf(c, Res(w).op.key)] = Res(w).docIs)

\* a query has returned document 1 and a PUT has changed the document since: what
\* the query returned is not what the index holds now
C27_Witness ==
    \E c \in DoneCalls :
        /\ Res(c).op.kind = "getcol" /\ Res(c).ok
        /\ PlaceOf(c, 1) # 0
        /\ \E w \in Answered(Requests("put", 1), StatusOK) : w[1] = c[1] /\ w[2] > c[2]
        /\ Returned(docs, c)[PlaceOf(c, 1)] # docs[InitNodeId(1)]
        /\ Returned(docs, c)[PlaceOf(c, 1)].data = Body(0)


(* ---------------------------------------------------------------------- *)
\* C28: every POST answered 201 has created a new document: the node and the
\* document are the ones this call allocated, the document has the node's name,
\* the request's body and the caller as its creator, and no other node of the index
\* has that name; so two POSTs answered 201 have different names, and the documents
\* that were there before are as they were.
Posted == {c \in DoneCalls : Res(c).op.kind = "post" /\ Res(c).status = StatusCreated}
AllocatedBy(c) == 2 + (c[1] - 1) * MaxOps + c[2]
InitNodes == {InitNodeId(k) : k \in Keys}

C28_PostCreates ==
    /\ \A c \in Posted :
          LET n == Res(c).val
          IN  /\ n = AllocatedBy(c)
              /\ nodes[n].key \in Keys /\ nodes[n].fullyLinked /\ nodes[n].value = n
              /\ docs[n].name = nodes[n].key
              /\ docs[n].data = Res(c).op.body
              /\ docs[n].createdBy = Res(c).op.user
              /\ \A m \in NodeIds \ {n} : nodes[m].key # nodes[n].key
              /\ \A d \in Posted \ {c} : docs[Res(d).val].name # docs[n].name
    /\ \A k \in Keys :
          docs[InitNodeId(k)] \in {NoDoc, NewDocument(k, Body(0), InitUser, k)}
    /\ \A k \in Keys : nodes[InitNodeId(k)].key \in {k, FreeNode.key}

\* two goroutines' POSTs were answered 201 after a name drawn was found taken
C28_Witness ==
    /\ \E c, d \in Posted : c[1] # d[1]
    /\ \E k \in Keys : nCheck[k].t > 0


(* ---------------------------------------------------------------------- *)
\* C29: a request that is well-formed (one name or an even number of names, a
\* valid Authorization header, a valid body and mode, a path of the kind its method
\* takes) and names, before the last name of its path, a database, document or
\* collection that is not there is answered 404, and the handler changes no node
\* of the index, no document and no subscriber on its way.
WellFormed(req) ==
    /\ PathLen(req) = 1 \/ PathLen(req) % 2 = 0
    /\ checkAuthorization(req.auth, 0).ok
    /\ req.mode = ""
    /\ req.method \in {"PUT", "POST"} => Validate(req.body)
    /\ req.method = "POST" => Blank(req)
    /\ req.method = "PATCH" => ~Blank(req)
    /\ req.method = "PUT" => ~(PathLen(req) = 2 /\ Blank(req))

MissingBefore(req) == \E i \in 1..Len(req.pre) : ~req.pre[i]

Answers(p) == Len(hist'[p]) = Len(hist[p]) + 1

C29_MissingPrefix ==
    /\ [][\A p \in Procs :
             (Answers(p) /\ WellFormed(hist'[p][Len(hist'[p])].op)
                         /\ MissingBefore(hist'[p][Len(hist'[p])].op))
             => /\ hist'[p][Len(hist'[p])].status = StatusNotFound
                /\ procs[p].pc = "idle"
                /\ nodes' = nodes /\ docs' = docs /\ subs' = subs]_vars
    /\ [](\A c \in DoneCalls :
             (WellFormed(Res(c).op) /\ MissingBefore(Res(c).op))
             => /\ Res(c).status = StatusNotFound
                /\ ~Res(c).wrote /\ ~Res(c).viaUpsert /\ ~Res(c).notified)

\* a request with a missing name has been answered while another goroutine's
\* request was changing the collection
C29_Witness ==
    /\ \E c \in DoneCalls :
          /\ WellFormed(Res(c).op) /\ MissingBefore(Res(c).op)
          /\ Res(c).status = StatusNotFound
          /\ \E q \in Procs \ {c[1]} : procs[q].pc \in {"u_new", "u_checked", "r_lockpred"}


(* ---------------------------------------------------------------------- *)
\* C30: a request whose Authorization header is missing, is not "Bearer " and a
\* token, or has a token that is unknown or expired is answered 401, and its
\* handler changes no node of the index, no document and no subscriber and sends
\* no frame.
Refused(req) == req.auth \in BadHeaders

C30_Unauthorized ==
    /\ [][\A p \in Procs :
             (Answers(p) /\ Refused(hist'[p][Len(hist'[p])].op))
             => /\ hist'[p][Len(hist'[p])].status = StatusUnauthorized
                /\ procs[p].pc = "idle"
                /\ nodes' = nodes /\ docs' = docs /\ subs' = subs]_vars
    /\ [](\A c \in DoneCalls :
             Refused(Res(c).op)
             => /\ Res(c).status = StatusUnauthorized
                /\ ~Res(c).wrote /\ ~Res(c).viaUpsert /\ ~Res(c).notified)
    /\ [](\A p \in Procs : procs[p].req.kind = "none" \/ ~Refused(procs[p].req))

\* a request with such a header has been answered 401 while another goroutine's
\* request was changing the collection
C30_Witness ==
    \E c \in DoneCalls :
        /\ Refused(Res(c).op)
        /\ Res(c).status = StatusUnauthorized
        /\ \E q \in Procs \ {c[1]} : procs[q].pc \in {"u_new", "u_checked", "r_lockpred"}


(* ---------------------------------------------------------------------- *)
\* C31: IsTokenValid(t) returns (name, true) only if t was stored and not expired
\* at some moment of the call, and ("", false) only if at some moment of the call
\* it was not; DeleteToken(t) returns true only if t was stored and not expired at
\* some moment of the call; the DeleteToken calls that returned true on t are at
\* most one more than the AddToken calls that stored t; DeleteToken's step on the
\* map leaves t out of it, and only AddToken puts a token into the map.
TokenCalls(kind, t) == {c \in DoneCalls : Res(c).op.kind = kind /\ Res(c).op.key = t}
Adds(t) ==
    Cardinality({c \in DoneCalls : Res(c).op.kind = "addtoken" /\ Res(c).val = t})
    + Cardinality({p \in Procs : procs[p].op.kind = "addtoken" /\ procs[p].pc = "a_ret"
                                 /\ procs[p].tmp = t})

C31_TokenLifecycle ==
    /\ [](\A t \in TokenDraws :
            /\ \A c \in TokenCalls("valid", t) :
                  /\ Res(c).ok => Res(c).sawLive /\ Res(c).val # -1
                  /\ Res(c).ok /\ Res(c).val # t => Adds(t) > 0
                  /\ ~Res(c).ok => Res(c).sawDead /\ Res(c).val = -1
            /\ \A c \in TokenCalls("deltoken", t) : Res(c).ok => Res(c).sawLive
            /\ Cardinality({c \in TokenCalls("deltoken", t) : Res(c).ok}) <= 1 + Adds(t))
    /\ [][\A p \in Procs :
             (procs[p].op.kind = "deltoken" /\ procs[p].pc = "a_map"
              /\ procs'[p].pc = "a_ret")
             => procs[p].op.key \notin DOMAIN tokens']_vars
    /\ [][\A t \in DOMAIN tokens' \ DOMAIN tokens :
             \E p \in Procs : /\ procs[p].op.kind = "addtoken" /\ procs[p].pc = "a_map"
                              /\ procs'[p].pc = "a_ret" /\ procs'[p].tmp = t]_vars

\* token 1 was found valid, then deleted by one DeleteToken (true) while another
\* returned false, and was found not valid afterwards
C31_Witness ==
    /\ \E c \in TokenCalls("valid", 1) : Res(c).ok /\ Res(c).val = 1
    /\ \E c, d \in TokenCalls("deltoken", 1) : Res(c).ok /\ ~Res(d).ok
    /\ \E c \in TokenCalls("valid", 1) : ~Res(c).ok
    /\ 1 \notin DOMAIN tokens

\* ---------------------------------------------------------------------------
\* C32: Find and Query never take a node lock. A step of a Find or a Query changes
\* no node; every round of a Find's descent moves to a larger key or a lower level,
\* so the Find ends within a bounded number of its own steps; a Query of a range
\* whose entries no call is changing never tries again; and the reader returns
\* even when the writers stop for ever with locks held.
Reading(l) == l.op.kind \in {"find", "query"}

ReadDone == prog[1] = <<>> /\ procs[1].pc = "idle"

LocksHeld == {n \in DOMAIN nodes : nodes[n].mtx # 0}

C32_ReadersNeverWait ==
    /\ [][\A p \in Procs :
            Reading(procs[p]) /\ procs'[p] # procs[p] => nodes' = nodes]_vars
    /\ [][\A p \in Procs :
            /\ procs[p].op.kind = "find"
            /\ procs[p].pc = "find"
            /\ procs'[p] # procs[p]
            => \/ procs'[p].pc # "find"
               \/ procs'[p].level < procs[p].level
               \/ /\ procs'[p].level = procs[p].level
                  /\ nodes[procs'[p].pred].key > nodes[procs[p].pred].key]_vars
    /\ [](~procs[1].retried)
    /\ <>ReadDone

\* the reader has returned while a writer, stopped in its call, holds a lock
C32_Witness ==
    /\ ReadDone
    /\ LocksHeld # {}
    /\ \E p \in Procs \ {1} : procs[p].pc # "idle" /\ procs[p].locked # {}

\* ---------------------------------------------------------------------------
\* C33: in every state of every interleaving of Upsert and Remove calls the chain
\* of level 0 runs from the head to the tail with strictly increasing keys, so no
\* key is in two linked nodes, and every node reached from the head at a level
\* above 0 is reached at level 0 too.
RECURSIVE LevelFrom(_, _, _, _)
LevelFrom(ns, lv, n, fuel) ==
    IF n = TailId \/ n = Nil \/ fuel = 0 THEN <<n>>
    ELSE <<n>> \o LevelFrom(ns, lv, ns[n].next[lv + 1], fuel - 1)

\* the nodes reached from the head at a level, the head first and the tail last
LevelChain(lv) == LevelFrom(nodes, lv, HeadId, NumNodes)

OnLevel(lv) == {LevelChain(lv)[i] : i \in 1..Len(LevelChain(lv))}

C33_ChainSorted ==
    /\ LevelChain(0)[Len(LevelChain(0))] = TailId
    /\ \A i \in 1..(Len(LevelChain(0)) - 1) :
           nodes[LevelChain(0)[i]].key < nodes[LevelChain(0)[i + 1]].key
    /\ \A lv \in 1..(Height - 1) :
           /\ LevelChain(lv)[Len(LevelChain(lv))] = TailId
           /\ OnLevel(lv) \subseteq OnLevel(0)

\* an Upsert is linking its node, which is in the chain of level 0 and not yet in
\* the chain of level 1, while a Remove is unlinking another node top down
C33_Witness ==
    \E p, q \in Procs :
        /\ procs[p].pc = "u_link" /\ procs[p].level = 1 /\ procs[p].op.top >= 1
        /\ procs[p].node \in OnLevel(0) \ OnLevel(1)
        /\ procs[q].pc = "r_unlink"

\* ---------------------------------------------------------------------------
\* C34: every update frame a subscriber receives was made by one PUT, POST or PATCH
\* that is answered 200 or 201 with patchFailed = false, and it carries the document
\* as that request's check left it: the request's body (PUT, POST) or the data made
\* by a list of operations that all apply (PATCH), last modified by the request's
\* user at the time of the frame. A
\* request that is answered otherwise, with patchFailed = true, or not at all
\* has emitted no update frame.
UpdatesGot(s) ==
    {subs[s].got[i] : i \in {j \in 1..Len(subs[s].got) : subs[s].got[j].ev = "update"}}

Succeeded(h) == h.status \in {StatusOK, StatusCreated} /\ ~h.patchFailed

\* the data the check of a request stores, given the document it was called with
DataMade(req, was) ==
    IF req.kind = "patch" THEN PatchLoop(was.data, req.ops, StatusOK).docJson
    ELSE req.body

CarriesStateOf(m, req, was) ==
    /\ req.kind \in {"put", "patch", "post"}
    /\ req.kind = "patch" =>
           req.isList /\ ~PatchLoop(was.data, req.ops, StatusOK).patchFailed
    /\ m.doc.name = m.docName
    /\ m.doc.data = DataMade(req, was)
    /\ m.doc.lastModifiedBy = req.user
    /\ m.doc.lastModifiedAt = m.at

C34_FramesOfCommitted ==
    /\ \A s \in Subs : \A m \in UpdatesGot(s) :
          LET p == m.by[1]
              i == m.by[2]
          IN  IF i <= Len(hist[p])
              THEN /\ Succeeded(hist[p][i])
                   /\ hist[p][i].notified
                   /\ CarriesStateOf(m, hist[p][i].op, hist[p][i].docWas)
              ELSE /\ i = Len(hist[p]) + 1
                   /\ procs[p].notified
                   /\ CarriesStateOf(m, procs[p].req, procs[p].cur)
    /\ \A p \in Procs : \A i \in 1..Len(hist[p]) :
          hist[p][i].op.kind \in {"put", "patch", "post"} /\ hist[p][i].notified
              => Succeeded(hist[p][i])

\* a subscriber has received the frame of a PATCH answered 200, and a PATCH or PUT
\* of another goroutine was answered without success
C34_Witness ==
    /\ \E s \in Subs : \E m \in UpdatesGot(s) :
          /\ m.by[2] <= Len(hist[m.by[1]])
          /\ hist[m.by[1]][m.by[2]].op.kind \in {"patch", "post"}
    /\ \E p \in Procs : \E i \in 1..Len(hist[p]) : ~Succeeded(hist[p][i])

\* ---------------------------------------------------------------------------
\* C35: an update frame is delivered only after the collection has committed the
\* change: when the update frame of a document has been written to a subscriber's
\* client, a Find of that document succeeds (no request deletes a document here, so
\* a document that was committed stays).
UpdatesWritten(s) ==
    {subs[s].wrote[i] :
        i \in {j \in 1..Len(subs[s].wrote) : subs[s].wrote[j].ev = "update"}}

C35_FrameAfterCommit ==
    \A s \in Subs : \A m \in UpdatesWritten(s) : FindNow(nodes, m.docName).ok

\* ---------------------------------------------------------------------------
\* C36: when a DELETE of a collection of a document has been answered 204, every
\* subscriber of that collection, whatever its range, has the delete frame of the
\* request written to its client or is writing it.
DeleteFrameOf(m, p, i) == m.ev = "delete" /\ m.by = <<p, i>>

C36_DeleteReachesAll ==
    \A p \in Procs : \A i \in 1..Len(hist[p]) :
        hist[p][i].op.kind = "delcol" /\ hist[p][i].status = StatusNoContent
        => \A s \in Subs :
              \/ \E j \in 1..Len(subs[s].wrote) : DeleteFrameOf(subs[s].wrote[j], p, i)
              \/ subs[s].st = "writing" /\ DeleteFrameOf(subs[s].frame, p, i)

\* ---------------------------------------------------------------------------
\* C37: the index is free of deadlock. When every call has returned no node lock is
\* held, and a call that waits for a node's lock waits for a goroutine that is
\* inside a call, which will unlock the node.
WaitsFor(l) ==
    IF l.pc \in {"u_lock", "r_lockv"} THEN {l.victim}
    ELSE IF l.pc \in {"u_lockpred", "r_lockpred"} THEN {l.preds[l.level + 1]} \ l.locked
    ELSE {}

C37_NoDeadlock ==
    /\ AllDone => LocksHeld = {}
    /\ \A p \in Procs : \A n \in WaitsFor(procs[p]) :
          nodes[n].mtx # 0 => procs[nodes[n].mtx].pc # "idle"

\* ---------------------------------------------------------------------------
\* C38: a write takes effect only in a collection that is attached: the check of a
\* PUT, POST or PATCH creates or modifies a document only while the database is in
\* dbIndex, and a request whose check ran after the DELETE of the database had
\* completed is not answered 200 or 201.
C38_WritesAttached ==
    [][\A p \in Procs :
          procs'[p].applied /\ ~procs[p].applied /\ docs' # docs
          => Database \in dbIndex]_vars

\* ---------------------------------------------------------------------------
\* C39: a subscriber to a document misses no change made after its first frame was
\* read. When every request is answered and the subscriber, in its loop, has
\* nothing left to write, its client has been shown the document as it is now: an
\* update frame with the document's last modification time if the document is
\* there, a delete frame if it is not.
ShownNow(s) ==
    LET r == FindNow(nodes, subs[s].low)
    IN  IF r.ok
        THEN \E i \in 1..Len(subs[s].wrote) :
                /\ subs[s].wrote[i].ev = "update"
                /\ subs[s].wrote[i].at = docs[r.val].lastModifiedAt
        ELSE \E i \in 1..Len(subs[s].wrote) : subs[s].wrote[i].ev = "delete"

C39_NoMissedChange ==
    \A s \in Subs :
        InLoop(s) /\ AllDone /\ subs[s].st = "select" => ShownNow(s)

\* ---------------------------------------------------------------------------
\* C40: a PUT of a document that is answered 200 or 201 is answered 201 exactly if
\* its check ran with exists=false (the request created the document) and 200
\* exactly if it ran with exists=true (the request overwrote it), whatever PUTs and
\* DELETEs of the document run beside it.
C40_CreatedIff ==
    \A c \in DoneCalls :
        Res(c).op.kind = "put" /\ Res(c).status \in {StatusOK, StatusCreated}
        => (Res(c).status = StatusCreated <=> ~Res(c).exists)

====
